---- MODULE Spec2Model ----
(***************************************************************************)
(* PortalMaze: the augmented-state breadth-first solver (solveMaze) and    *)
(* the generate-and-validate maze generator (generateRandomLevel).         *)
(*                                                                         *)
(* Coordinates are those of the source: grid[y][x], both 0-based, x grows  *)
(* to the right and y grows downwards.  A grid is a function from row      *)
(* index to (function from column index to cell).                          *)
(***************************************************************************)
EXTENDS Integers, Sequences, FiniteSets, TLC

(***************************************************************************)
(* Bounds of the solver inputs.                                            *)
(***************************************************************************)
\* largest number of rows of an input grid
MaxRows == 2
\* largest number of columns of an input grid
MaxCols == 3
\* largest number of cells of an input grid
MaxCells == 6
\* largest wall-break budget handed to solveMaze
MaxK == 2
\* largest number of cells of a grid whose runs are followed to their end
MaxLiveCells == 4

(***************************************************************************)
(* Bounds of the generator.  The source builds its mazes on a grid of      *)
(* GRID_SIZE = 10 (constants.ts, line 4); here the side is kept small, so  *)
(* that every outcome of the random choices of one attempt is explored.    *)
(***************************************************************************)
\* the side of the generated grid
GRID_SIZE == 5
\* largest number of interior walls opened by the loop-punching step
MaxHoles == 1

(***************************************************************************)
(* Data model (types.ts)                                                   *)
(***************************************************************************)
CellType == {"empty", "wall", "start", "goal", "portal"}

\* the colours drawn for input grids; "none" is an absent portalColor
PortalColor == {"blue", "red"}

Cell(t, c) == [type |-> t, portalColor |-> c]

EmptyCell == Cell("empty", "none")
WallCell == Cell("wall", "none")
StartCell == Cell("start", "none")
GoalCell == Cell("goal", "none")

\* the value of `null` for a position, a result or a stored count
Null == [kind |-> "null"]

Pos(px, py) == [x |-> px, y |-> py]

\* grid.length
Rows(g) == Cardinality(DOMAIN g)

\* grid[0].length
Cols(g) == IF Rows(g) = 0 THEN 0 ELSE Cardinality(DOMAIN g[0])

\* the order in which grid.forEach(row => row.forEach(cell => ...)) visits
RowMajor(g) ==
  [i \in 1..(Rows(g) * Cols(g)) |-> Pos((i - 1) % Cols(g), (i - 1) \div Cols(g))]

CellAt(g, p) == g[p.y][p.x]

\* the positions of the grid
Positions(g) == {Pos(px, py) : px \in 0..(Cols(g) - 1), py \in 0..(Rows(g) - 1)}

Last(s) == s[Len(s)]

(***************************************************************************)
(* pathfinding.ts                                                          *)
(***************************************************************************)
\* Up, Right, Down, Left
DIRECTIONS == << [dx |-> 0, dy |-> -1], [dx |-> 1, dy |-> 0],
                 [dx |-> 0, dy |-> 1], [dx |-> -1, dy |-> 0] >>

\* portals[color]: the positions of the portals of one colour, in scan order
\* (an absent key is the empty sequence)
findPortals(g) ==
  [c \in PortalColor |->
     SelectSeq(RowMajor(g),
               LAMBDA p : CellAt(g, p).type = "portal" /\ CellAt(g, p).portalColor = c)]

\* findEndpoints with the start defaulting to the top-left cell when the
\* scan finds none
findEndpointsDefaultStart(g) ==
  LET starts == SelectSeq(RowMajor(g), LAMBDA p : CellAt(g, p).type = "start")
      goals == SelectSeq(RowMajor(g), LAMBDA p : CellAt(g, p).type = "goal")
  IN [start |-> IF starts = << >> THEN Pos(0, 0) ELSE Last(starts),
      goal |-> IF goals = << >> THEN Null ELSE Last(goals)]

\* the last start and the last goal of the scan, or null
findEndpoints(g) ==
  LET starts == SelectSeq(RowMajor(g), LAMBDA p : CellAt(g, p).type = "start")
      goals == SelectSeq(RowMajor(g), LAMBDA p : CellAt(g, p).type = "goal")
  IN [start |-> IF starts = << >> THEN Null ELSE Last(starts),
      goal |-> IF goals = << >> THEN Null ELSE Last(goals)]

\* visitKey without the break count: a position is visited once, whatever
\* the breaks used to reach it
visitKeyPositionOnly(px, py, b) == << px, py, 0 >>

\* the key `${x},${y},${breaksUsed}` of the visited set
visitKey(px, py, b) == << px, py, b >>

PathNode(px, py, b, st, pth) ==
  [x |-> px, y |-> py, breaksUsed |-> b, steps |-> st, path |-> pth]

\* the frame of one call: the queue, the visited set and the value returned
\* (result is meaningful once returned is TRUE)
Frame(q, v, ret, res) == [queue |-> q, visited |-> v, returned |-> ret, result |-> res]

\* lines 69-79: the queue and the visited set hold the start state
InitFrame(start) ==
  Frame(<< PathNode(start.x, start.y, 0, 0, << Pos(start.x, start.y) >>) >>,
        {visitKey(start.x, start.y, 0)}, FALSE, Null)

\* if (!visited.has(visitKey)) { visited.add(visitKey); queue.push(node) }
push(f, node) ==
  IF visitKey(node.x, node.y, node.breaksUsed) \in f.visited
  THEN f
  ELSE [f EXCEPT !.visited = @ \cup {visitKey(node.x, node.y, node.breaksUsed)},
                 !.queue = Append(@, node)]

RECURSIVE pushAll(_, _)
pushAll(f, nodes) ==
  IF nodes = << >> THEN f ELSE pushAll(push(f, Head(nodes)), Tail(nodes))

\* teleportSuccessors to every other portal, whatever its colour
teleportSuccessorsAnyColour(g, current) ==
  LET currentCell == g[current.y][current.x]
  IN IF currentCell.type = "portal" /\ currentCell.portalColor # "none"
     THEN LET dests == SelectSeq(RowMajor(g),
                         LAMBDA d : /\ CellAt(g, d).type = "portal"
                                    /\ ~(d.x = current.x /\ d.y = current.y))
          IN [i \in 1..Len(dests) |->
                PathNode(dests[i].x, dests[i].y, current.breaksUsed,
                         current.steps + 1,
                         Append(current.path, Pos(dests[i].x, dests[i].y)))]
     ELSE << >>

\* teleportSuccessors with a teleport that costs no step
teleportSuccessorsFree(g, current) ==
  LET currentCell == g[current.y][current.x]
  IN IF currentCell.type = "portal" /\ currentCell.portalColor # "none"
     THEN LET pair == findPortals(g)[currentCell.portalColor]
              dests == SelectSeq(pair, LAMBDA d : ~(d.x = current.x /\ d.y = current.y))
          IN IF Len(pair) > 1
             THEN [i \in 1..Len(dests) |->
                     PathNode(dests[i].x, dests[i].y, current.breaksUsed,
                              current.steps,
                              Append(current.path, Pos(dests[i].x, dests[i].y)))]
             ELSE << >>
     ELSE << >>

\* teleportSuccessors to the first other member of the colour group only
teleportSuccessorsFirstOnly(g, current) ==
  LET currentCell == g[current.y][current.x]
  IN IF currentCell.type = "portal" /\ currentCell.portalColor # "none"
     THEN LET pair == findPortals(g)[currentCell.portalColor]
              dests == SelectSeq(pair, LAMBDA d : ~(d.x = current.x /\ d.y = current.y))
          IN IF Len(pair) > 1
             THEN << PathNode(dests[1].x, dests[1].y, current.breaksUsed,
                              current.steps + 1,
                              Append(current.path, Pos(dests[1].x, dests[1].y))) >>
             ELSE << >>
     ELSE << >>

\* lines 93-116: the teleport successors of the dequeued node, in scan order
teleportSuccessors(g, current) ==
  LET currentCell == g[current.y][current.x]
  IN IF currentCell.type = "portal" /\ currentCell.portalColor # "none"
     THEN LET pair == findPortals(g)[currentCell.portalColor]
              dests == SelectSeq(pair, LAMBDA d : ~(d.x = current.x /\ d.y = current.y))
          IN IF Len(pair) > 1
             THEN [i \in 1..Len(dests) |->
                     PathNode(dests[i].x, dests[i].y, current.breaksUsed,
                              current.steps + 1,
                              Append(current.path, Pos(dests[i].x, dests[i].y)))]
             ELSE << >>
     ELSE << >>

\* moveSuccessor entering a cell only while the new break count is strictly
\* below the budget
moveSuccessorStrictBudget(g, maxBreaksAllowed, current, dir) ==
  LET nx == current.x + dir.dx
      ny == current.y + dir.dy
  IN IF nx >= 0 /\ nx < Cols(g) /\ ny >= 0 /\ ny < Rows(g)
     THEN LET isWall == g[ny][nx].type = "wall"
              newBreaks == IF isWall THEN current.breaksUsed + 1 ELSE current.breaksUsed
          IN IF newBreaks < maxBreaksAllowed
             THEN << PathNode(nx, ny, newBreaks, current.steps + 1,
                              Append(current.path, Pos(nx, ny))) >>
             ELSE << >>
     ELSE << >>

\* moveSuccessor with the budget comparison reversed
moveSuccessorReversedBudget(g, maxBreaksAllowed, current, dir) ==
  LET nx == current.x + dir.dx
      ny == current.y + dir.dy
  IN IF nx >= 0 /\ nx < Cols(g) /\ ny >= 0 /\ ny < Rows(g)
     THEN LET isWall == g[ny][nx].type = "wall"
              newBreaks == IF isWall THEN current.breaksUsed + 1 ELSE current.breaksUsed
          IN IF newBreaks >= maxBreaksAllowed
             THEN << PathNode(nx, ny, newBreaks, current.steps + 1,
                              Append(current.path, Pos(nx, ny))) >>
             ELSE << >>
     ELSE << >>

\* moveSuccessor charging a break for every cell that is not empty, start
\* or goal, portals included
moveSuccessorPortalIsWall(g, maxBreaksAllowed, current, dir) ==
  LET nx == current.x + dir.dx
      ny == current.y + dir.dy
  IN IF nx >= 0 /\ nx < Cols(g) /\ ny >= 0 /\ ny < Rows(g)
     THEN LET isWall == g[ny][nx].type \notin {"empty", "start", "goal"}
              newBreaks == IF isWall THEN current.breaksUsed + 1 ELSE current.breaksUsed
          IN IF newBreaks <= maxBreaksAllowed
             THEN << PathNode(nx, ny, newBreaks, current.steps + 1,
                              Append(current.path, Pos(nx, ny))) >>
             ELSE << >>
     ELSE << >>

\* moveSuccessor entering a wall without counting a break
moveSuccessorFreeBreak(g, maxBreaksAllowed, current, dir) ==
  LET nx == current.x + dir.dx
      ny == current.y + dir.dy
  IN IF nx >= 0 /\ nx < Cols(g) /\ ny >= 0 /\ ny < Rows(g)
     THEN LET newBreaks == current.breaksUsed
          IN IF newBreaks <= maxBreaksAllowed
             THEN << PathNode(nx, ny, newBreaks, current.steps + 1,
                              Append(current.path, Pos(nx, ny))) >>
             ELSE << >>
     ELSE << >>

\* lines 119-147: the move / break successors of the dequeued node
moveSuccessor(g, maxBreaksAllowed, current, dir) ==
  LET nx == current.x + dir.dx
      ny == current.y + dir.dy
  IN IF nx >= 0 /\ nx < Cols(g) /\ ny >= 0 /\ ny < Rows(g)
     THEN LET isWall == g[ny][nx].type = "wall"
              newBreaks == IF isWall THEN current.breaksUsed + 1 ELSE current.breaksUsed
          IN IF newBreaks <= maxBreaksAllowed
             THEN << PathNode(nx, ny, newBreaks, current.steps + 1,
                              Append(current.path, Pos(nx, ny))) >>
             ELSE << >>
     ELSE << >>

moveSuccessors(g, maxBreaksAllowed, current) ==
  moveSuccessor(g, maxBreaksAllowed, current, DIRECTIONS[1])
    \o moveSuccessor(g, maxBreaksAllowed, current, DIRECTIONS[2])
    \o moveSuccessor(g, maxBreaksAllowed, current, DIRECTIONS[3])
    \o moveSuccessor(g, maxBreaksAllowed, current, DIRECTIONS[4])

\* loopBody returning only at a goal state that used no break; a goal state
\* that used breaks is expanded like any other state
loopBodyUnbrokenGoalOnly(g, maxBreaksAllowed, goal, f) ==
  LET current == Head(f.queue)
      rest == [f EXCEPT !.queue = Tail(@)]
  IN IF current.x = goal.x /\ current.y = goal.y /\ current.breaksUsed = 0
     THEN [rest EXCEPT !.returned = TRUE,
                       !.result = [steps |-> current.steps, path |-> current.path]]
     ELSE pushAll(rest, teleportSuccessors(g, current)
                          \o moveSuccessors(g, maxBreaksAllowed, current))

\* lines 83-147: one iteration of the while loop (the queue is not empty)
loopBody(g, maxBreaksAllowed, goal, f) ==
  LET current == Head(f.queue)
      rest == [f EXCEPT !.queue = Tail(@)]
  IN IF current.x = goal.x /\ current.y = goal.y
     THEN [rest EXCEPT !.returned = TRUE,
                       !.result = [steps |-> current.steps, path |-> current.path]]
     ELSE pushAll(rest, teleportSuccessors(g, current)
                          \o moveSuccessors(g, maxBreaksAllowed, current))

\* lines 81-150: the while loop and the return after it
RECURSIVE search(_, _, _, _)
search(g, maxBreaksAllowed, goal, f) ==
  IF f.returned THEN f.result
  ELSE IF f.queue = << >> THEN Null
  ELSE search(g, maxBreaksAllowed, goal, loopBody(g, maxBreaksAllowed, goal, f))

solveMaze(g, maxBreaksAllowed) ==
  LET e == findEndpoints(g)
  IN IF e.start = Null \/ e.goal = Null
     THEN Null
     ELSE search(g, maxBreaksAllowed, e.goal, InitFrame(e.start))

(***************************************************************************)
(* The solver as a state machine: a caller holds a grid and a budget and   *)
(* calls solveMaze on them; one step of the machine is the entry of a call *)
(* (lines 55-79), one iteration of the while loop (lines 81-147) or the    *)
(* return after the loop (line 150).                                       *)
(***************************************************************************)
VARIABLES
  grid,              \* the grid handed to solveMaze
  maxBreaksAllowed,  \* the budget handed to solveMaze
  pc,                \* "idle", "searching" or "returned"
  queue,             \* the frontier of the running call
  visited,           \* the visited set of the running call
  result,            \* the value returned by the last call
  iterations,        \* loop iterations executed by the last call
  calls,             \* number of calls made so far
  previous           \* the values returned by the earlier calls

solverVars == << grid, maxBreaksAllowed, pc, queue, visited, result,
                 iterations, calls, previous >>

\* the state of one call of generateRandomLevel
VARIABLES
  maxBreaks,   \* the budget handed to generateRandomLevel
  genPc,       \* "loop", "carve", "dist", "holes", "validate" or "done"
  attempts,    \* attempts started so far
  maze,        \* the grid under construction (grid in the source)
  stack,       \* the stack of the carving loop
  carved,      \* the lattice cells visited by the carving loop (visited)
  q,           \* the queue of the distance search
  dists,       \* the distances found by the distance search
  bestDist,    \* the greatest distance dequeued so far
  goalPos,     \* the cell dequeued at that distance
  level        \* the Level returned, or null

genVars == << maxBreaks, genPc, attempts, maze, stack, carved, q, dists,
              bestDist, goalPos, level >>

\* the state of the App component and of the Game session it shows
VARIABLES
  screen,       \* 'menu', 'level-select', 'game' or 'editor'
  levels,       \* the levels of the level-select screen
  activeLevel,  \* the canonical Level handed to the Game session, or null
  gameMode,     \* 'no-break' or 'wall-break'
  lastResult,   \* the score of the results banner, or null
  gameGrid,     \* the session's copy of the grid (grid in Game)
  gameState,    \* the GameState of the session, or null when no Game is mounted
  timers,       \* the delayed onWin calls not yet run, oldest first
  lastKey       \* the last keydown event the session's listener took, or null

appVars == << screen, levels, activeLevel, gameMode, lastResult, gameGrid, gameState,
              timers, lastKey >>

\* the state of the Editor component
VARIABLES
  editorGrid,       \* the grid being edited (grid in Editor)
  editorMaxBreaks,  \* the break budget field (maxBreaks in Editor)
  selectedTool,     \* 'start', 'goal', 'wall', 'portal' or 'erase'
  selectedColor,    \* the colour given to new portals
  validationError   \* the message shown by the editor, or null

editorVars == << editorGrid, editorMaxBreaks, selectedTool, selectedColor, validationError >>

vars == << solverVars, genVars, appVars, editorVars >>

\* the value null of validationError (string | null, Editor.tsx line 34);
\* no message of the editor is this string
NoMessage == "(null)"

\* no Editor is mounted
EditorIdle ==
  /\ editorGrid = << >>
  /\ editorMaxBreaks = 1
  /\ selectedTool = "wall"
  /\ selectedColor = "blue"
  /\ validationError = NoMessage

\* the generator is not running
GenIdle ==
  /\ maxBreaks = 0
  /\ genPc = "idle"
  /\ attempts = 0
  /\ maze = << >>
  /\ stack = << >>
  /\ carved = {}
  /\ q = << >>
  /\ dists = << >>
  /\ bestDist = 0
  /\ goalPos = Pos(1, 1)
  /\ level = Null

\* the solver is not running
SolverIdle ==
  /\ grid = << >>
  /\ maxBreaksAllowed = 0
  /\ pc = "idle"
  /\ queue = << >>
  /\ visited = {}
  /\ result = Null
  /\ iterations = 0
  /\ calls = 0
  /\ previous = << >>

\* the App is not running
AppIdle ==
  /\ screen = "idle"
  /\ levels = << >>
  /\ activeLevel = Null
  /\ gameMode = "no-break"
  /\ lastResult = Null
  /\ gameGrid = << >>
  /\ gameState = Null
  /\ timers = << >>
  /\ lastKey = Null

\* the shapes (rows, cols) of the input grids
Shapes ==
  {s \in (1..MaxRows) \X (1..MaxCols) : s[1] * s[2] <= MaxCells}

CellKinds ==
  {EmptyCell, WallCell, StartCell, GoalCell} \cup {Cell("portal", c) : c \in PortalColor}

CountType(g, t) ==
  Cardinality({i \in 1..(Rows(g) * Cols(g)) : CellAt(g, RowMajor(g)[i]).type = t})

GridsOfShape(r, c) == [0..(r - 1) -> [0..(c - 1) -> CellKinds]]

\* rectangular grids with exactly one start and exactly one goal
ValidGrids ==
  UNION {{g \in GridsOfShape(s[1], s[2]) :
            CountType(g, "start") = 1 /\ CountType(g, "goal") = 1} : s \in Shapes}

\* grids without a start or without a goal: the grid of no rows and the
\* one-row grids with at most one start and at most one goal
MalformedGrids ==
  {<< >>} \cup
  UNION {{g \in GridsOfShape(1, c) :
            /\ CountType(g, "start") <= 1 /\ CountType(g, "goal") <= 1
            /\ CountType(g, "start") = 0 \/ CountType(g, "goal") = 0} : c \in 1..MaxCols}

\* the grid [start, wall, goal]: with no break the search empties the queue
WallCorridor ==
  [py \in {0} |-> [px \in 0..2 |->
     IF px = 0 THEN StartCell ELSE IF px = 1 THEN WallCell ELSE GoalCell]]

\* the two-row grid of the portal scenario:
\*   row 0 = [start, portal-blue, wall, goal]
\*   row 1 = [empty, portal-blue, empty, empty]
PortalScenario ==
  [py \in 0..1 |-> [px \in 0..3 |->
     IF px = 1 THEN Cell("portal", "blue")
     ELSE IF py = 0 /\ px = 0 THEN StartCell
     ELSE IF py = 0 /\ px = 2 THEN WallCell
     ELSE IF py = 0 /\ px = 3 THEN GoalCell
     ELSE EmptyCell]]

\* grids of fixed layout handed to solveMaze besides the enumerated ones
ScenarioGrids == {PortalScenario}

InputGrids == ValidGrids \cup MalformedGrids \cup ScenarioGrids

Init ==
  /\ grid \in InputGrids
  /\ maxBreaksAllowed \in 0..MaxK
  /\ pc = "idle"
  /\ queue = << >>
  /\ visited = {}
  /\ result = Null
  /\ iterations = 0
  /\ calls = 0
  /\ previous = << >>
  /\ GenIdle
  /\ AppIdle
  /\ EditorIdle

\* Enter with a visited set that outlives the call: the keys of the earlier
\* call are still in it
EnterKeepingVisited ==
  /\ calls' = calls + 1
  /\ previous' = IF pc = "returned" THEN Append(previous, result) ELSE previous
  /\ iterations' = 0
  /\ LET e == findEndpoints(grid)
     IN IF e.start = Null \/ e.goal = Null
        THEN /\ pc' = "returned"
             /\ result' = Null
             /\ queue' = << >>
             /\ visited' = visited
        ELSE /\ pc' = "searching"
             /\ result' = Null
             /\ queue' = InitFrame(e.start).queue
             /\ visited' = visited \cup InitFrame(e.start).visited
  /\ UNCHANGED << grid, maxBreaksAllowed, genVars, appVars, editorVars >>

\* lines 55-79: the endpoints are looked up; a missing endpoint returns null
\* before any search state exists, otherwise the queue and the visited set
\* are created holding the start state
Enter ==
  /\ calls' = calls + 1
  /\ previous' = IF pc = "returned" THEN Append(previous, result) ELSE previous
  /\ iterations' = 0
  /\ LET e == findEndpoints(grid)
     IN IF e.start = Null \/ e.goal = Null
        THEN /\ pc' = "returned"
             /\ result' = Null
             /\ queue' = << >>
             /\ visited' = {}
        ELSE /\ pc' = "searching"
             /\ result' = Null
             /\ queue' = InitFrame(e.start).queue
             /\ visited' = InitFrame(e.start).visited
  /\ UNCHANGED << grid, maxBreaksAllowed, genVars, appVars, editorVars >>

\* the first call of solveMaze(grid, maxBreaksAllowed)
Call ==
  /\ pc = "idle"
  /\ Enter

\* a second call with the same arguments, after the first has returned
CallAgain ==
  /\ pc = "returned"
  /\ calls < 2
  /\ Enter

\* the cells of the grid that are entered by the nodes of nodes are opened
openEntered(g, nodes) ==
  [py \in DOMAIN g |->
     [px \in DOMAIN g[py] |->
        IF g[py][px].type = "wall" /\ \E i \in 1..Len(nodes) : nodes[i].x = px /\ nodes[i].y = py
        THEN [g[py][px] EXCEPT !.type = "empty"]
        ELSE g[py][px]]]

\* Iterate with the break written into the grid: a wall entered by a
\* successor becomes an empty cell of the caller's grid
IterateOpeningWalls ==
  /\ pc = "searching"
  /\ queue # << >>
  /\ LET f == loopBody(grid, maxBreaksAllowed, findEndpoints(grid).goal,
                       Frame(queue, visited, FALSE, Null))
     IN /\ queue' = f.queue
        /\ visited' = f.visited
        /\ result' = f.result
        /\ pc' = IF f.returned THEN "returned" ELSE "searching"
        /\ grid' = IF f.returned THEN grid
                   ELSE openEntered(grid, moveSuccessors(grid, maxBreaksAllowed, Head(queue)))
  /\ iterations' = iterations + 1
  /\ UNCHANGED << maxBreaksAllowed, calls, previous, genVars, appVars, editorVars >>

\* lines 81-147: one iteration of while (queue.length > 0)
Iterate ==
  /\ pc = "searching"
  /\ queue # << >>
  /\ LET f == loopBody(grid, maxBreaksAllowed, findEndpoints(grid).goal,
                       Frame(queue, visited, FALSE, Null))
     IN /\ queue' = f.queue
        /\ visited' = f.visited
        /\ result' = f.result
        /\ pc' = IF f.returned THEN "returned" ELSE "searching"
  /\ iterations' = iterations + 1
  /\ UNCHANGED << grid, maxBreaksAllowed, calls, previous, genVars, appVars, editorVars >>

\* Exhaust with a loop that does not end on an empty queue
ExhaustKeepsLooping ==
  /\ pc = "searching"
  /\ queue = << >>
  /\ result' = Null
  /\ pc' = "searching"
  /\ UNCHANGED << grid, maxBreaksAllowed, queue, visited, iterations, calls, previous,
               genVars, appVars, editorVars >>

\* line 150: the queue is empty, the loop ends and null is returned
Exhaust ==
  /\ pc = "searching"
  /\ queue = << >>
  /\ result' = Null
  /\ pc' = "returned"
  /\ UNCHANGED << grid, maxBreaksAllowed, queue, visited, iterations, calls, previous,
               genVars, appVars, editorVars >>

Next == Call \/ Iterate \/ Exhaust

Spec == Init /\ [][Next]_vars

\* the inputs of the runs followed to their end: the grids of MaxLiveCells
\* cells or fewer
LiveInit ==
  /\ Init
  /\ Rows(grid) * Cols(grid) <= MaxLiveCells

\* the call runs: a step of solveMaze that is possible is eventually taken
FairSpec == LiveInit /\ [][Next]_vars /\ WF_vars(Next)

\* the same machine with the call repeated
RepeatNext == Call \/ CallAgain \/ Iterate \/ Exhaust

RepeatSpec == Init /\ [][RepeatNext]_vars

(***************************************************************************)
(* solveMaze as a function of its arguments: one step is one whole call.   *)
(***************************************************************************)
Solve ==
  /\ pc = "idle"
  /\ pc' = "returned"
  /\ result' = solveMaze(grid, maxBreaksAllowed)
  /\ calls' = calls + 1
  /\ UNCHANGED << grid, maxBreaksAllowed, queue, visited, iterations, previous, genVars, appVars, editorVars >>

SolveNext == Solve

SolveSpec == Init /\ [][SolveNext]_vars

(***************************************************************************)
(* mazeGenerator.ts: generateRandomLevel(maxBreaks), one step per loop     *)
(* iteration or per numbered step of an attempt.                           *)
(***************************************************************************)
\* while (attempts < 20)
MaxAttempts == 20

\* the budgets handed to generateRandomLevel: the documented range 0..5 and
\* a negative number, which the number field of the editor lets through
Budgets == -1..5

\* the lattice steps of the carving loop
CARVE_DIRECTIONS == << [dx |-> 0, dy |-> -2], [dx |-> 0, dy |-> 2],
                       [dx |-> -2, dy |-> 0], [dx |-> 2, dy |-> 0] >>

\* the moves of the distance search
DIST_MOVES == << [dx |-> 0, dy |-> -1], [dx |-> 0, dy |-> 1],
                 [dx |-> -1, dy |-> 0], [dx |-> 1, dy |-> 0] >>

\* step 1: every cell of the grid is a wall
AllWalls == [py \in 0..(GRID_SIZE - 1) |-> [px \in 0..(GRID_SIZE - 1) |-> WallCell]]

setType(g, px, py, t) == [g EXCEPT ![py][px].type = t]

GenInit ==
  /\ SolverIdle
  /\ AppIdle
  /\ EditorIdle
  /\ maxBreaks \in Budgets
  /\ genPc = "loop"
  /\ attempts = 0
  /\ maze = << >>
  /\ stack = << >>
  /\ carved = {}
  /\ q = << >>
  /\ dists = << >>
  /\ bestDist = 0
  /\ goalPos = Pos(1, 1)
  /\ level = Null

\* BeginAttempt without attempts++
BeginAttemptNoCount ==
  /\ genPc = "loop"
  /\ attempts < MaxAttempts
  /\ attempts' = attempts
  /\ maze' = setType(AllWalls, 1, 1, "empty")
  /\ stack' = << Pos(1, 1) >>
  /\ carved' = {Pos(1, 1)}
  /\ q' = << >>
  /\ dists' = << >>
  /\ bestDist' = 0
  /\ goalPos' = Pos(1, 1)
  /\ genPc' = "carve"
  /\ UNCHANGED << maxBreaks, level, solverVars, appVars, editorVars >>

\* lines 17-35: a new attempt starts on a grid of walls with (1,1) opened
BeginAttempt ==
  /\ genPc = "loop"
  /\ attempts < MaxAttempts
  /\ attempts' = attempts + 1
  /\ maze' = setType(AllWalls, 1, 1, "empty")
  /\ stack' = << Pos(1, 1) >>
  /\ carved' = {Pos(1, 1)}
  /\ q' = << >>
  /\ dists' = << >>
  /\ bestDist' = 0
  /\ goalPos' = Pos(1, 1)
  /\ genPc' = "carve"
  /\ UNCHANGED << maxBreaks, level, solverVars, appVars, editorVars >>

\* lines 42-51: the unvisited lattice neighbours of the top of the stack
neighbors(current, seen) ==
  {i \in 1..4 :
     LET nx == current.x + CARVE_DIRECTIONS[i].dx
         ny == current.y + CARVE_DIRECTIONS[i].dy
     IN /\ nx > 0 /\ nx < GRID_SIZE - 1 /\ ny > 0 /\ ny < GRID_SIZE - 1
        /\ Pos(nx, ny) \notin seen}

\* CarveStep without line 56: the wall between the two lattice cells stays
CarveStepKeepingWall ==
  /\ genPc = "carve"
  /\ stack # << >>
  /\ LET current == Last(stack)
     IN IF neighbors(current, carved) # {}
        THEN \E i \in neighbors(current, carved) :
               LET nx == current.x + CARVE_DIRECTIONS[i].dx
                   ny == current.y + CARVE_DIRECTIONS[i].dy
               IN /\ maze' = setType(maze, nx, ny, "empty")
                  /\ carved' = carved \cup {Pos(nx, ny)}
                  /\ stack' = Append(stack, Pos(nx, ny))
        ELSE /\ stack' = SubSeq(stack, 1, Len(stack) - 1)
             /\ UNCHANGED << maze, carved >>
  /\ UNCHANGED << maxBreaks, genPc, attempts, q, dists, bestDist, goalPos, level,
                  solverVars, appVars, editorVars >>

\* lines 37-64: one iteration of the carving loop
CarveStep ==
  /\ genPc = "carve"
  /\ stack # << >>
  /\ LET current == Last(stack)
     IN IF neighbors(current, carved) # {}
        THEN \E i \in neighbors(current, carved) :
               LET nx == current.x + CARVE_DIRECTIONS[i].dx
                   ny == current.y + CARVE_DIRECTIONS[i].dy
                   bx == current.x + CARVE_DIRECTIONS[i].dx \div 2
                   by == current.y + CARVE_DIRECTIONS[i].dy \div 2
               IN /\ maze' = setType(setType(maze, bx, by, "empty"), nx, ny, "empty")
                  /\ carved' = carved \cup {Pos(nx, ny)}
                  /\ stack' = Append(stack, Pos(nx, ny))
        ELSE /\ stack' = SubSeq(stack, 1, Len(stack) - 1)
             /\ UNCHANGED << maze, carved >>
  /\ UNCHANGED << maxBreaks, genPc, attempts, q, dists, bestDist, goalPos, level,
                  solverVars, appVars, editorVars >>

\* PlaceStart without line 67: (1,1) stays an empty cell
PlaceStartMissing ==
  /\ genPc = "carve"
  /\ stack = << >>
  /\ maze' = maze
  /\ bestDist' = 0
  /\ goalPos' = Pos(1, 1)
  /\ dists' = [p \in {Pos(1, 1)} |-> 0]
  /\ q' = << [x |-> 1, y |-> 1, d |-> 0] >>
  /\ genPc' = "dist"
  /\ UNCHANGED << maxBreaks, attempts, stack, carved, level, solverVars, appVars, editorVars >>

\* lines 66-76: the carving loop has ended; the start is placed and the
\* distance search is set up
PlaceStart ==
  /\ genPc = "carve"
  /\ stack = << >>
  /\ maze' = setType(maze, 1, 1, "start")
  /\ bestDist' = 0
  /\ goalPos' = Pos(1, 1)
  /\ dists' = [p \in {Pos(1, 1)} |-> 0]
  /\ q' = << [x |-> 1, y |-> 1, d |-> 0] >>
  /\ genPc' = "dist"
  /\ UNCHANGED << maxBreaks, attempts, stack, carved, level, solverVars, appVars, editorVars >>

\* lines 86-95: the neighbours of curr are given their distance and queued
RECURSIVE relax(_, _, _, _)
relax(g, curr, st, i) ==
  IF i > 4 THEN st
  ELSE LET nx == curr.x + DIST_MOVES[i].dx
           ny == curr.y + DIST_MOVES[i].dy
       IN IF /\ nx >= 0 /\ nx < GRID_SIZE /\ ny >= 0 /\ ny < GRID_SIZE
             /\ g[ny][nx].type = "empty"
             /\ Pos(nx, ny) \notin DOMAIN st.dists
          THEN relax(g, curr,
                     [dists |-> [p \in DOMAIN st.dists \cup {Pos(nx, ny)} |->
                                   IF p = Pos(nx, ny) THEN curr.d + 1 ELSE st.dists[p]],
                      q |-> Append(st.q, [x |-> nx, y |-> ny, d |-> curr.d + 1])],
                     i + 1)
          ELSE relax(g, curr, st, i + 1)

\* DistStep without lines 80-83: the farthest cell is never recorded
DistStepKeepingGoal ==
  /\ genPc = "dist"
  /\ q # << >>
  /\ LET curr == Head(q)
         st == relax(maze, curr, [dists |-> dists, q |-> Tail(q)], 1)
     IN /\ bestDist' = bestDist
        /\ goalPos' = goalPos
        /\ dists' = st.dists
        /\ q' = st.q
  /\ UNCHANGED << maxBreaks, genPc, attempts, maze, stack, carved, level, solverVars, appVars, editorVars >>

\* lines 78-96: one iteration of the distance search
DistStep ==
  /\ genPc = "dist"
  /\ q # << >>
  /\ LET curr == Head(q)
         st == relax(maze, curr, [dists |-> dists, q |-> Tail(q)], 1)
     IN /\ bestDist' = IF curr.d > bestDist THEN curr.d ELSE bestDist
        /\ goalPos' = IF curr.d > bestDist THEN Pos(curr.x, curr.y) ELSE goalPos
        /\ dists' = st.dists
        /\ q' = st.q
  /\ UNCHANGED << maxBreaks, genPc, attempts, maze, stack, carved, level, solverVars, appVars, editorVars >>

\* line 100-105: the empty cells in scan order
empties(g) == SelectSeq(RowMajor(g), LAMBDA p : CellAt(g, p).type = "empty")

\* lines 112-115: two cells become blue portals
setPortals(g, p1, p2) ==
  [g EXCEPT ![p1.y][p1.x] = Cell("portal", "blue"),
            ![p2.y][p2.x] = Cell("portal", "blue")]

\* PlaceGoalAndPortals without lines 114-115: only p1 becomes a portal
PlaceGoalAndOnePortal ==
  /\ genPc = "dist"
  /\ q = << >>
  /\ LET withGoal == setType(maze, goalPos.x, goalPos.y, "goal")
         es == empties(withGoal)
     IN IF Len(es) >= 2
        THEN \E i, j \in 1..Len(es) :
               /\ i # j
               /\ maze' = setPortals(withGoal, es[i], es[i])
        ELSE maze' = withGoal
  /\ genPc' = "holes"
  /\ UNCHANGED << maxBreaks, attempts, stack, carved, q, dists, bestDist, goalPos,
                  level, solverVars, appVars, editorVars >>

\* lines 97-116: the distance search has ended; the goal is placed and, when
\* two empty cells remain, the first two cells of a random shuffle of the
\* empty cells become the portal pair
PlaceGoalAndPortals ==
  /\ genPc = "dist"
  /\ q = << >>
  /\ LET withGoal == setType(maze, goalPos.x, goalPos.y, "goal")
         es == empties(withGoal)
     IN IF Len(es) >= 2
        THEN \E i, j \in 1..Len(es) :
               /\ i # j
               /\ maze' = setPortals(withGoal, es[i], es[j])
        ELSE maze' = withGoal
  /\ genPc' = "holes"
  /\ UNCHANGED << maxBreaks, attempts, stack, carved, q, dists, bestDist, goalPos,
                  level, solverVars, appVars, editorVars >>

\* the walls strictly inside the border
interiorWalls(g) ==
  {p \in Positions(g) :
     /\ p.x >= 1 /\ p.x < GRID_SIZE - 1 /\ p.y >= 1 /\ p.y < GRID_SIZE - 1
     /\ CellAt(g, p).type = "wall"}

\* the cells of H opened
punch(g, H) ==
  [py \in DOMAIN g |->
     [px \in DOMAIN g[py] |->
        IF Pos(px, py) \in H THEN [g[py][px] EXCEPT !.type = "empty"] ELSE g[py][px]]]

\* lines 118-125: every interior wall is opened or not, by chance
PunchHoles ==
  /\ genPc = "holes"
  /\ \E H \in SUBSET interiorWalls(maze) :
       /\ Cardinality(H) <= MaxHoles
       /\ maze' = punch(maze, H)
  /\ genPc' = "validate"
  /\ UNCHANGED << maxBreaks, attempts, stack, carved, q, dists, bestDist, goalPos,
                  level, solverVars, appVars, editorVars >>

\* the Level record without its id, its random name and its creation time
Level(name, g, k, noBreak, withBreak) ==
  [name |-> name, grid |-> g, maxBreaks |-> k,
   optimalStepsNoBreak |-> noBreak, optimalStepsWithBreak |-> withBreak]

\* Validate storing the no-break count in both fields of the Level
ValidateCopiedCount ==
  /\ genPc = "validate"
  /\ LET solNoBreak == solveMaze(maze, 0)
         solWithBreak == solveMaze(maze, maxBreaks)
     IN IF solNoBreak # Null /\ solWithBreak # Null
        THEN /\ level' = Level("Random Sector", maze, maxBreaks,
                               solNoBreak.steps, solNoBreak.steps)
             /\ genPc' = "done"
        ELSE /\ level' = level
             /\ genPc' = "loop"
  /\ UNCHANGED << maxBreaks, attempts, maze, stack, carved, q, dists, bestDist,
                  goalPos, solverVars, appVars, editorVars >>

\* lines 127-142: the attempt is accepted when both solves find a path, and
\* discarded otherwise
Validate ==
  /\ genPc = "validate"
  /\ LET solNoBreak == solveMaze(maze, 0)
         solWithBreak == solveMaze(maze, maxBreaks)
     IN IF solNoBreak # Null /\ solWithBreak # Null
        THEN /\ level' = Level("Random Sector", maze, maxBreaks,
                               solNoBreak.steps, solWithBreak.steps)
             /\ genPc' = "done"
        ELSE /\ level' = level
             /\ genPc' = "loop"
  /\ UNCHANGED << maxBreaks, attempts, maze, stack, carved, q, dists, bestDist,
                  goalPos, solverVars, appVars, editorVars >>

\* lines 144-157: every attempt was discarded; three cells of the grid of
\* the last attempt are overwritten and the grid is returned with counts 2, 2
Fallback ==
  /\ genPc = "loop"
  /\ attempts >= MaxAttempts
  /\ maze' = setType(setType(setType(maze, 1, 1, "start"), 2, 1, "empty"), 3, 1, "goal")
  /\ level' = Level("Fallback Level", maze', maxBreaks, 2, 2)
  /\ genPc' = "done"
  /\ UNCHANGED << maxBreaks, attempts, stack, carved, q, dists, bestDist, goalPos,
                  solverVars, appVars, editorVars >>

GenNext ==
  \/ BeginAttempt
  \/ CarveStep
  \/ PlaceStart
  \/ DistStep
  \/ PlaceGoalAndPortals
  \/ PunchHoles
  \/ Validate
  \/ Fallback

GenSpec == GenInit /\ [][GenNext]_vars

\* the call runs to its end: the step of the program that is possible is
\* eventually taken.  Validate is possible exactly when genPc = "validate",
\* and its weak fairness is written out with that guard for its ENABLED.
GenFairSpec ==
  /\ GenSpec
  /\ WF_vars(BeginAttempt)
  /\ WF_vars(CarveStep)
  /\ WF_vars(PlaceStart)
  /\ WF_vars(DistStep)
  /\ WF_vars(PlaceGoalAndPortals)
  /\ WF_vars(PunchHoles)
  /\ WF_vars(Fallback)
  /\ ([]<>(genPc # "validate") \/ []<><<Validate>>_vars)

(***************************************************************************)
(* constants.ts: the built-in level                                        *)
(***************************************************************************)
\* createEmptyGrid(rows, cols)
createEmptyGrid(rows, cols) ==
  [py \in 0..(rows - 1) |-> [px \in 0..(cols - 1) |-> EmptyCell]]

\* line 38: the [y, x] pairs that are made walls
DemoWalls ==
  { << 1, 1 >>, << 1, 2 >>, << 1, 3 >>, << 1, 4 >>, << 2, 4 >>, << 3, 4 >>, << 4, 4 >>,
    << 5, 4 >>, << 6, 4 >>, << 6, 1 >>, << 6, 2 >>, << 5, 1 >> }

\* lines 36-48: the walls are written first, then the portals, then the
\* start and the goal (the portal at [6][2] replaces the wall written there)
demoGrid ==
  LET walled == [py \in 0..7 |-> [px \in 0..7 |->
                   IF << py, px >> \in DemoWalls THEN WallCell ELSE EmptyCell]]
      portalled == [walled EXCEPT ![3][1] = Cell("portal", "blue"),
                                  ![0][7] = Cell("portal", "blue"),
                                  ![6][2] = Cell("portal", "red"),
                                  ![4][6] = Cell("portal", "red")]
  IN [portalled EXCEPT ![0][0].type = "start", ![7][7].type = "goal"]

\* lines 50-58
DEMO_LEVEL == Level("Tutorial Sector", demoGrid, 1, 24, 12)

(***************************************************************************)
(* App.tsx and the Game component: the screens, the level list, and one    *)
(* Game session at a time.  A key press is one step: the handler runs, the *)
(* component renders and the goal effect of that render runs (lines        *)
(* 158-164) before the next input is taken.                                *)
(***************************************************************************)
\* most actions of one session
MaxMoves == 5
\* most levels in the level list
MaxLevels == 2
\* most delayed onWin calls waiting when a session starts
MaxTimers == 1

\* the value null of a stored count (number | null, types.ts lines 20-21);
\* a count is never negative
NullCount == -1

\* the Level the editor hands to onSave for a grid and a budget (Editor.tsx,
\* lines 98-118): the two stored counts are the solver's, null if unreachable
EditorLevel(name, g, k) ==
  LET noBreakSol == solveMaze(g, 0)
      breakSol == solveMaze(g, k)
  IN Level(name, g, k,
           IF noBreakSol # Null THEN noBreakSol.steps ELSE NullCount,
           IF breakSol # Null THEN breakSol.steps ELSE NullCount)

\* two grids drawn in the editor on its empty GRID_SIZE x GRID_SIZE grid:
\* a start walled in next to the goal, and a portal pair between the two
EnclosedStart ==
  [createEmptyGrid(GRID_SIZE, GRID_SIZE) EXCEPT
     ![0][0] = StartCell, ![0][1] = WallCell, ![1][0] = WallCell, ![1][1] = GoalCell]

PortalCorner ==
  [createEmptyGrid(GRID_SIZE, GRID_SIZE) EXCEPT
     ![0][0] = StartCell, ![0][1] = Cell("portal", "blue"),
     ![1][0] = Cell("portal", "blue"), ![1][1] = GoalCell]

\* a third grid drawn in the editor: three blue portals, the last of the
\* scan walled in with the goal
\*    W  S  P  P  .
\*    P  W  .  .  .
\*    G  W  .  .  .
\*    W  .  .  .  .
ThreePortals ==
  [createEmptyGrid(GRID_SIZE, GRID_SIZE) EXCEPT
     ![0][0] = WallCell, ![0][1] = StartCell,
     ![0][2] = Cell("portal", "blue"), ![0][3] = Cell("portal", "blue"),
     ![1][0] = Cell("portal", "blue"), ![1][1] = WallCell,
     ![2][0] = GoalCell, ![2][1] = WallCell,
     ![3][0] = WallCell]

\* the levels handed to handleEditorSave: the first and the third saved with
\* the budget 1 of a new editor, the second with a typed budget of -1
SavedLevels ==
  {EditorLevel("New Level", EnclosedStart, 1), EditorLevel("New Level", PortalCorner, -1),
   EditorLevel("New Level", ThreePortals, 1)}

Modes == {"no-break", "wall-break"}

\* the arrow keys and w, a, s, d: the (dx, dy) handed to attemptMove
KeyMoves == {<< 0, -1 >>, << 0, 1 >>, << -1, 0 >>, << 1, 0 >>}

AppInit ==
  /\ SolverIdle
  /\ GenIdle
  /\ EditorIdle
  /\ screen = "menu"
  /\ levels = << DEMO_LEVEL >>
  /\ activeLevel = Null
  /\ gameMode = "no-break"
  /\ lastResult = Null
  /\ gameGrid = << >>
  /\ gameState = Null
  /\ timers = << >>
  /\ lastKey = Null

\* Game, lines 19-37: the start is the last start cell of the scan, (0, 0)
\* if there is none
initialGameState(l) ==
  LET starts == SelectSeq(RowMajor(l.grid), LAMBDA p : CellAt(l.grid, p).type = "start")
      startPos == IF starts = << >> THEN Pos(0, 0) ELSE Last(starts)
  IN [playerPos |-> startPos, movesTaken |-> 0, uniqueCellsVisited |-> {startPos},
      wallsBroken |-> 0, status |-> "playing"]

\* goalEffect with a handleWin that holds the movesTaken of the render
\* before the move
goalEffectStaleSteps(gg, gs, tm, l, m) ==
  IF CellAt(gg, gs.playerPos).type = "goal" /\ gs.status = "playing"
  THEN [gameState |-> [gs EXCEPT !.status = "won"],
        timers |-> Append(tm, [steps |-> gs.movesTaken - 1, level |-> l, mode |-> m])]
  ELSE [gameState |-> gs, timers |-> tm]

\* Game, lines 158-164 and handleWin (lines 46-58): after a render with the
\* player on a goal cell and status 'playing', status becomes 'won' and
\* onWin is scheduled with the movesTaken of that render.  The scheduled call
\* belongs to the Game instance that made it: l and m are the props level
\* and mode of that instance, kept with the call.
goalEffect(gg, gs, tm, l, m) ==
  IF CellAt(gg, gs.playerPos).type = "goal" /\ gs.status = "playing"
  THEN [gameState |-> [gs EXCEPT !.status = "won"],
        timers |-> Append(tm, [steps |-> gs.movesTaken, level |-> l, mode |-> m])]
  ELSE [gameState |-> gs, timers |-> tm]

\* the menu buttons and the back buttons
setScreen ==
  /\ \/ screen = "menu" /\ screen' \in {"level-select", "editor"}
     \/ screen = "level-select" /\ screen' = "menu"
     \/ screen = "editor" /\ screen' = "menu"
  /\ UNCHANGED << levels, activeLevel, gameMode, lastResult, gameGrid, gameState, timers,
                  lastKey, solverVars, genVars, editorVars >>

\* App.tsx, lines 42-45
handleEditorSave ==
  /\ screen = "editor"
  /\ Len(levels) < MaxLevels
  /\ \E newLevel \in SavedLevels : levels' = Append(levels, newLevel)
  /\ screen' = "menu"
  /\ UNCHANGED << activeLevel, gameMode, lastResult, gameGrid, gameState, timers,
                  lastKey, solverVars, genVars, editorVars >>

\* App.tsx, lines 19-24, and the mount of Game (lines 14-37) with the goal
\* effect of its first render: the session takes a copy of the level's grid.
\* The button of a ruleset whose stored count is null is disabled.
startLevel ==
  /\ screen = "level-select"
  /\ Len(timers) <= MaxTimers
  /\ \E i \in 1..Len(levels), mode \in Modes :
       LET l == levels[i]
           mounted == goalEffect(l.grid, initialGameState(l), timers, l, mode)
       IN /\ IF mode = "no-break" THEN l.optimalStepsNoBreak # NullCount
                                  ELSE l.optimalStepsWithBreak # NullCount
          /\ activeLevel' = l
          /\ gameMode' = mode
          /\ gameGrid' = [py \in DOMAIN l.grid |-> [px \in DOMAIN l.grid[py] |-> l.grid[py][px]]]
          /\ gameState' = mounted.gameState
          /\ timers' = mounted.timers
  /\ screen' = "game"
  /\ lastResult' = Null
  /\ lastKey' = Null
  /\ UNCHANGED << levels, solverVars, genVars, editorVars >>

\* attemptMove writing the break into the grid of the canonical level too,
\* as it would with a session grid that shares its rows with level.grid
attemptMoveOnSharedRows ==
  /\ screen = "game"
  /\ gameState.movesTaken < MaxMoves
  /\ \E d \in KeyMoves, isBreakAttempt \in BOOLEAN :
       LET nx == gameState.playerPos.x + d[1]
           ny == gameState.playerPos.y + d[2]
           moved == [gameState EXCEPT !.playerPos = Pos(nx, ny),
                                      !.movesTaken = @ + 1,
                                      !.uniqueCellsVisited = @ \cup {Pos(nx, ny)}]
       IN /\ lastKey' = [dx |-> d[1], dy |-> d[2], shiftKey |-> isBreakAttempt,
                       enter |-> FALSE]
          /\ IF gameState.status # "playing"
             THEN UNCHANGED << gameGrid, gameState, timers, activeLevel >>
             ELSE IF ny < 0 \/ ny >= Rows(gameGrid) \/ nx < 0 \/ nx >= Cols(gameGrid)
             THEN UNCHANGED << gameGrid, gameState, timers, activeLevel >>
             ELSE IF gameGrid[ny][nx].type = "wall"
             THEN IF \/ ~isBreakAttempt
                     \/ gameMode = "no-break"
                     \/ gameState.wallsBroken >= activeLevel.maxBreaks
                  THEN UNCHANGED << gameGrid, gameState, timers, activeLevel >>
                  ELSE LET newGrid == [gameGrid EXCEPT ![ny][nx].type = "empty"]
                           after == goalEffect(newGrid,
                                               [moved EXCEPT !.wallsBroken = @ + 1], timers, activeLevel, gameMode)
                       IN /\ gameGrid' = newGrid
                          /\ activeLevel' = [activeLevel EXCEPT !.grid = newGrid]
                          /\ gameState' = after.gameState
                          /\ timers' = after.timers
             ELSE LET after == goalEffect(gameGrid, moved, timers, activeLevel, gameMode)
                  IN /\ gameState' = after.gameState
                     /\ timers' = after.timers
                     /\ UNCHANGED << gameGrid, activeLevel >>
  /\ UNCHANGED << screen, levels, gameMode, lastResult, solverVars, genVars, editorVars >>

\* Game, lines 60-120, called by the key listener (lines 166-198) with the
\* direction of the key and the shift state
attemptMove ==
  /\ screen = "game"
  /\ gameState.movesTaken < MaxMoves
  /\ \E d \in KeyMoves, isBreakAttempt \in BOOLEAN :
       LET nx == gameState.playerPos.x + d[1]
           ny == gameState.playerPos.y + d[2]
           moved == [gameState EXCEPT !.playerPos = Pos(nx, ny),
                                      !.movesTaken = @ + 1,
                                      !.uniqueCellsVisited = @ \cup {Pos(nx, ny)}]
       IN /\ lastKey' = [dx |-> d[1], dy |-> d[2], shiftKey |-> isBreakAttempt,
                       enter |-> FALSE]
          /\ IF gameState.status # "playing"
             THEN UNCHANGED << gameGrid, gameState, timers, activeLevel >>
             ELSE IF ny < 0 \/ ny >= Rows(gameGrid) \/ nx < 0 \/ nx >= Cols(gameGrid)
             THEN UNCHANGED << gameGrid, gameState, timers, activeLevel >>
             ELSE IF gameGrid[ny][nx].type = "wall"
             THEN IF \/ ~isBreakAttempt
                     \/ gameMode = "no-break"
                     \/ gameState.wallsBroken >= activeLevel.maxBreaks
                  THEN UNCHANGED << gameGrid, gameState, timers, activeLevel >>
                  ELSE LET newGrid == [gameGrid EXCEPT ![ny][nx].type = "empty"]
                           after == goalEffect(newGrid,
                                               [moved EXCEPT !.wallsBroken = @ + 1], timers, activeLevel, gameMode)
                       IN /\ gameGrid' = newGrid
                          /\ activeLevel' = activeLevel
                          /\ gameState' = after.gameState
                          /\ timers' = after.timers
             ELSE LET after == goalEffect(gameGrid, moved, timers, activeLevel, gameMode)
                  IN /\ gameState' = after.gameState
                     /\ timers' = after.timers
                     /\ UNCHANGED << gameGrid, activeLevel >>
  /\ UNCHANGED << screen, levels, gameMode, lastResult, solverVars, genVars, editorVars >>

\* Game, lines 128-141: the first other portal of the colour in scan order
partner(gg, pos) ==
  LET others == SelectSeq(RowMajor(gg),
                          LAMBDA c : /\ CellAt(gg, c).type = "portal"
                                     /\ CellAt(gg, c).portalColor = CellAt(gg, pos).portalColor
                                     /\ (c.x # pos.x \/ c.y # pos.y))
  IN IF others = << >> THEN Null ELSE Head(others)

\* attemptTeleport without line 150: the teleport is not counted as a move
attemptTeleportUncounted ==
  /\ screen = "game"
  /\ gameState.movesTaken < MaxMoves
  /\ LET currentCell == CellAt(gameGrid, gameState.playerPos)
     IN IF /\ gameState.status = "playing"
           /\ currentCell.type = "portal" /\ currentCell.portalColor # "none"
           /\ partner(gameGrid, gameState.playerPos) # Null
        THEN LET to == partner(gameGrid, gameState.playerPos)
                 after == goalEffect(gameGrid,
                            [gameState EXCEPT !.playerPos = Pos(to.x, to.y),
                                              !.uniqueCellsVisited = @ \cup {Pos(to.x, to.y)}],
                            timers, activeLevel, gameMode)
             IN /\ gameState' = after.gameState
                /\ timers' = after.timers
        ELSE UNCHANGED << gameState, timers >>
  /\ lastKey' = [dx |-> 0, dy |-> 0, shiftKey |-> FALSE, enter |-> TRUE]
  /\ UNCHANGED << screen, levels, activeLevel, gameMode, lastResult, gameGrid,
                  solverVars, genVars, editorVars >>

\* Game, lines 122-156, called by the key listener on Enter
attemptTeleport ==
  /\ screen = "game"
  /\ gameState.movesTaken < MaxMoves
  /\ LET currentCell == CellAt(gameGrid, gameState.playerPos)
     IN IF /\ gameState.status = "playing"
           /\ currentCell.type = "portal" /\ currentCell.portalColor # "none"
           /\ partner(gameGrid, gameState.playerPos) # Null
        THEN LET to == partner(gameGrid, gameState.playerPos)
                 after == goalEffect(gameGrid,
                            [gameState EXCEPT !.playerPos = Pos(to.x, to.y),
                                              !.movesTaken = @ + 1,
                                              !.uniqueCellsVisited = @ \cup {Pos(to.x, to.y)}],
                            timers, activeLevel, gameMode)
             IN /\ gameState' = after.gameState
                /\ timers' = after.timers
        ELSE UNCHANGED << gameState, timers >>
  /\ lastKey' = [dx |-> 0, dy |-> 0, shiftKey |-> FALSE, enter |-> TRUE]
  /\ UNCHANGED << screen, levels, activeLevel, gameMode, lastResult, gameGrid,
                  solverVars, genVars, editorVars >>

\* App.tsx, line 184: the back button of the Game; the session is unmounted
onExit ==
  /\ screen = "game"
  /\ screen' = "level-select"
  /\ gameGrid' = << >>
  /\ gameState' = Null
  /\ lastKey' = Null
  /\ UNCHANGED << levels, activeLevel, gameMode, lastResult, timers, solverVars, genVars, editorVars >>

\* the oldest delayed call of handleWin (line 55) runs onWin (App.tsx, lines
\* 185-188 and handleGameWin): the screen becomes the level select, whatever
\* it was, and the score becomes the last result
onWin ==
  /\ timers # << >>
  /\ screen' = "level-select"
  /\ lastResult' = [steps |-> Head(timers).steps]
  /\ timers' = Tail(timers)
  /\ gameGrid' = << >>
  /\ gameState' = Null
  /\ lastKey' = Null
  /\ UNCHANGED << levels, activeLevel, gameMode, solverVars, genVars, editorVars >>

AppNext ==
  \/ setScreen
  \/ handleEditorSave
  \/ startLevel
  \/ attemptMove
  \/ attemptTeleport
  \/ onExit
  \/ onWin

AppSpec == AppInit /\ [][AppNext]_vars

(***************************************************************************)
(* Editor.tsx: the Editor component, mounted by the App on the screen      *)
(* 'editor' with onSave = handleEditorSave.  One step is one click on a    *)
(* cell, on a tool, on a colour, an entry in the budget field, the Save    *)
(* button or the back button.  The Randomize button (generateRandom) and   *)
(* the name field are not taken.                                           *)
(***************************************************************************)
\* the cells that are clicked: the first MaxClickCells of ClickOrder
MaxClickCells == 4
\* the greatest number entered in the budget field
MaxEditorBreaks == 1

ClickOrder == << Pos(0, 0), Pos(1, 0), Pos(0, 1), Pos(1, 1), Pos(2, 0), Pos(2, 1) >>
ClickCells == {ClickOrder[i] : i \in 1..MaxClickCells}

\* parseInt of the budget field: the field takes typed digits with a sign
EditorBudgets == -1..MaxEditorBreaks

\* the tool buttons
Tools == {"start", "goal", "wall", "portal", "erase"}

\* lines 15-35: the state of a mounted Editor
EditorInit ==
  /\ SolverIdle
  /\ GenIdle
  /\ screen = "editor"
  /\ levels = << DEMO_LEVEL >>
  /\ activeLevel = Null
  /\ gameMode = "no-break"
  /\ lastResult = Null
  /\ gameGrid = << >>
  /\ gameState = Null
  /\ timers = << >>
  /\ lastKey = Null
  /\ editorGrid = createEmptyGrid(GRID_SIZE, GRID_SIZE)
  /\ editorMaxBreaks = 1
  /\ selectedTool = "wall"
  /\ selectedColor = "blue"
  /\ validationError = NoMessage

\* lines 46-52: every cell of type t becomes empty
clearType(g, t) ==
  [py \in DOMAIN g |->
     [px \in DOMAIN g[py] |->
        IF g[py][px].type = t THEN [g[py][px] EXCEPT !.type = "empty"] ELSE g[py][px]]]

\* handleCellClick without lines 46-52: the other starts and goals stay
handleCellClickNoClear ==
  /\ screen = "editor"
  /\ \E p \in ClickCells :
       LET cell == IF selectedTool = "erase" THEN Cell("empty", "none")
                   ELSE IF selectedTool = "portal" THEN Cell("portal", selectedColor)
                   ELSE Cell(selectedTool, "none")
       IN editorGrid' = [editorGrid EXCEPT ![p.y][p.x] = cell]
  /\ validationError' = NoMessage
  /\ UNCHANGED << editorMaxBreaks, selectedTool, selectedColor, appVars, solverVars, genVars >>

\* lines 37-65
handleCellClick ==
  /\ screen = "editor"
  /\ \E p \in ClickCells :
       LET cleared == IF selectedTool \in {"start", "goal"}
                      THEN clearType(editorGrid, selectedTool)
                      ELSE editorGrid
           cell == IF selectedTool = "erase" THEN Cell("empty", "none")
                   ELSE IF selectedTool = "portal" THEN Cell("portal", selectedColor)
                   ELSE Cell(selectedTool, "none")
       IN editorGrid' = [cleared EXCEPT ![p.y][p.x] = cell]
  /\ validationError' = NoMessage
  /\ UNCHANGED << editorMaxBreaks, selectedTool, selectedColor, appVars, solverVars, genVars >>

\* lines 175-187
setSelectedTool ==
  /\ screen = "editor"
  /\ selectedTool' \in Tools
  /\ UNCHANGED << editorGrid, editorMaxBreaks, selectedColor, validationError,
                  appVars, solverVars, genVars >>

\* line 200
setSelectedColor ==
  /\ screen = "editor"
  /\ selectedColor' \in PortalColor
  /\ UNCHANGED << editorGrid, editorMaxBreaks, selectedTool, validationError,
                  appVars, solverVars, genVars >>

\* lines 162-168
setMaxBreaks ==
  /\ screen = "editor"
  /\ editorMaxBreaks' \in EditorBudgets
  /\ UNCHANGED << editorGrid, selectedTool, selectedColor, validationError,
                  appVars, solverVars, genVars >>

\* line 126 and App.tsx, line 179: the back button unmounts the Editor
onCancel ==
  /\ screen = "editor"
  /\ screen' = "menu"
  /\ UNCHANGED << levels, activeLevel, gameMode, lastResult, gameGrid, gameState, timers,
                  lastKey, editorVars, solverVars, genVars >>

\* line 95: col.toUpperCase()
toUpperCase(col) == IF col = "blue" THEN "BLUE" ELSE "RED"

\* lines 82-96: the portal colours in the order of their first cell in the
\* scan, those with fewer than two cells kept
lonelyColors(g) ==
  LET ps == SelectSeq(RowMajor(g), LAMBDA p : /\ CellAt(g, p).type = "portal"
                                              /\ CellAt(g, p).portalColor # "none")
      count(c) == Cardinality({i \in 1..Len(ps) : CellAt(g, ps[i]).portalColor = c})
      isFirst(i) == \A j \in 1..(i - 1) :
                      CellAt(g, ps[j]).portalColor # CellAt(g, ps[i]).portalColor
      firsts == SelectSeq([i \in 1..Len(ps) |-> i], isFirst)
  IN SelectSeq([k \in 1..Len(firsts) |-> CellAt(g, ps[firsts[k]]).portalColor],
               LAMBDA c : count(c) < 2)

\* validateAndSave without the portal check of lines 93-96
validateAndSaveNoPortalCheck ==
  /\ screen = "editor"
  /\ IF CountType(editorGrid, "start") = 0
     THEN /\ validationError' = "Missing START point."
          /\ UNCHANGED << screen, levels >>
     ELSE IF CountType(editorGrid, "goal") = 0
     THEN /\ validationError' = "Missing GOAL point."
          /\ UNCHANGED << screen, levels >>
     ELSE IF solveMaze(editorGrid, 0) = Null /\ solveMaze(editorGrid, editorMaxBreaks) = Null
     THEN /\ validationError' = "Level is impossible to complete in either mode."
          /\ UNCHANGED << screen, levels >>
     ELSE /\ Len(levels) < MaxLevels
          /\ levels' = Append(levels, EditorLevel("New Level", editorGrid, editorMaxBreaks))
          /\ screen' = "menu"
          /\ validationError' = validationError
  /\ UNCHANGED << editorGrid, editorMaxBreaks, selectedTool, selectedColor,
                  activeLevel, gameMode, lastResult, gameGrid, gameState, timers, lastKey,
                  solverVars, genVars >>

\* validateAndSave rejecting when either solve finds no path
validateAndSaveRejectingEither ==
  /\ screen = "editor"
  /\ IF CountType(editorGrid, "start") = 0
     THEN /\ validationError' = "Missing START point."
          /\ UNCHANGED << screen, levels >>
     ELSE IF CountType(editorGrid, "goal") = 0
     THEN /\ validationError' = "Missing GOAL point."
          /\ UNCHANGED << screen, levels >>
     ELSE IF lonelyColors(editorGrid) # << >>
     THEN /\ validationError' = toUpperCase(Head(lonelyColors(editorGrid)))
                                  \o " portal has no pair."
          /\ UNCHANGED << screen, levels >>
     ELSE IF solveMaze(editorGrid, 0) = Null \/ solveMaze(editorGrid, editorMaxBreaks) = Null
     THEN /\ validationError' = "Level is impossible to complete in either mode."
          /\ UNCHANGED << screen, levels >>
     ELSE /\ Len(levels) < MaxLevels
          /\ levels' = Append(levels, EditorLevel("New Level", editorGrid, editorMaxBreaks))
          /\ screen' = "menu"
          /\ validationError' = validationError
  /\ UNCHANGED << editorGrid, editorMaxBreaks, selectedTool, selectedColor,
                  activeLevel, gameMode, lastResult, gameGrid, gameState, timers, lastKey,
                  solverVars, genVars >>

\* lines 77-119, with onSave = handleEditorSave (App.tsx, lines 42-45): the
\* Save button
validateAndSave ==
  /\ screen = "editor"
  /\ IF CountType(editorGrid, "start") = 0
     THEN /\ validationError' = "Missing START point."
          /\ UNCHANGED << screen, levels >>
     ELSE IF CountType(editorGrid, "goal") = 0
     THEN /\ validationError' = "Missing GOAL point."
          /\ UNCHANGED << screen, levels >>
     ELSE IF lonelyColors(editorGrid) # << >>
     THEN /\ validationError' = toUpperCase(Head(lonelyColors(editorGrid)))
                                  \o " portal has no pair."
          /\ UNCHANGED << screen, levels >>
     ELSE IF solveMaze(editorGrid, 0) = Null /\ solveMaze(editorGrid, editorMaxBreaks) = Null
     THEN /\ validationError' = "Level is impossible to complete in either mode."
          /\ UNCHANGED << screen, levels >>
     ELSE /\ Len(levels) < MaxLevels
          /\ levels' = Append(levels, EditorLevel("New Level", editorGrid, editorMaxBreaks))
          /\ screen' = "menu"
          /\ validationError' = validationError
  /\ UNCHANGED << editorGrid, editorMaxBreaks, selectedTool, selectedColor,
                  activeLevel, gameMode, lastResult, gameGrid, gameState, timers, lastKey,
                  solverVars, genVars >>

EditorNext ==
  \/ handleCellClick
  \/ setSelectedTool
  \/ setSelectedColor
  \/ setMaxBreaks
  \/ validateAndSave
  \/ onCancel

EditorSpec == EditorInit /\ [][EditorNext]_vars

(***************************************************************************)
(* The legal action sequences of the game, enumerated exhaustively: a      *)
(* situation is the player's position and the set of walls broken so far.  *)
(* A cardinal move enters a cell that is not a wall or a wall already      *)
(* broken; a wall-break enters an unbroken wall while fewer than K walls   *)
(* are broken; a teleport leads from a portal to another portal of the     *)
(* same colour.                                                            *)
(***************************************************************************)
Adjacent(p, n) ==
  \/ p.x = n.x /\ (p.y - n.y = 1 \/ n.y - p.y = 1)
  \/ p.y = n.y /\ (p.x - n.x = 1 \/ n.x - p.x = 1)

LegalActions(g, K, s) ==
  {[pos |-> n, broken |-> s.broken] :
     n \in {n \in Positions(g) :
              Adjacent(s.pos, n) /\ (CellAt(g, n).type # "wall" \/ n \in s.broken)}}
  \cup
  {[pos |-> n, broken |-> s.broken \cup {n}] :
     n \in {n \in Positions(g) :
              /\ Adjacent(s.pos, n) /\ CellAt(g, n).type = "wall" /\ n \notin s.broken
              /\ Cardinality(s.broken) < K}}
  \cup
  {[pos |-> n, broken |-> s.broken] :
     n \in {n \in Positions(g) :
              /\ n # s.pos
              /\ CellAt(g, s.pos).type = "portal" /\ CellAt(g, n).type = "portal"
              /\ CellAt(g, s.pos).portalColor # "none"
              /\ CellAt(g, n).portalColor = CellAt(g, s.pos).portalColor}}

\* the length of the shortest legal action sequence that ends on goal from
\* the situations of frontier, all reached after d actions; -1 if there is none
RECURSIVE ShortestFrom(_, _, _, _, _, _)
ShortestFrom(g, K, goal, frontier, seen, d) ==
  IF \E s \in frontier : s.pos = goal THEN d
  ELSE IF frontier = {} THEN -1
  ELSE LET next == UNION {LegalActions(g, K, s) : s \in frontier} \ seen
       IN ShortestFrom(g, K, goal, next, seen \cup next, d + 1)

ShortestLegal(g, K) ==
  LET from == [pos |-> findEndpoints(g).start, broken |-> {}]
  IN ShortestFrom(g, K, findEndpoints(g).goal, {from}, {from}, 0)

OneStartOneGoal(g) == CountType(g, "start") = 1 /\ CountType(g, "goal") = 1

\* every portal cell replaced by an empty cell
removePortals(g) ==
  [py \in DOMAIN g |->
     [px \in DOMAIN g[py] |->
        IF g[py][px].type = "portal" THEN EmptyCell ELSE g[py][px]]]

\* C1: on a grid with one start and one goal, when some legal action
\* sequence with at most K breaks reaches the goal, solveMaze returns steps
\* equal to the length of the shortest such sequence.
C1_Optimality ==
  (pc = "returned" /\ OneStartOneGoal(grid) /\ ShortestLegal(grid, maxBreaksAllowed) >= 0)
    => (result # Null /\ result.steps = ShortestLegal(grid, maxBreaksAllowed))

\* a call on a grid with portals has returned an optimum of three or more
\* actions that needs a wall-break (with no break there is no path)
C1_Witness ==
  /\ pc = "returned" /\ OneStartOneGoal(grid)
  /\ result # Null /\ result.steps >= 3
  /\ maxBreaksAllowed >= 1
  /\ solveMaze(grid, 0) = Null
  /\ CountType(grid, "portal") >= 2

\* C2: on a grid with one start and one goal, solveMaze returns null exactly
\* when no legal action sequence with at most K breaks reaches the goal.
C2_Reachability ==
  (pc = "returned" /\ OneStartOneGoal(grid))
    => (result = Null <=> ShortestLegal(grid, maxBreaksAllowed) = -1)

\* a call has returned null although the budget allows a break
C2_Witness ==
  /\ pc = "returned" /\ OneStartOneGoal(grid)
  /\ result = Null /\ maxBreaksAllowed >= 1

\* C3: when solveMaze(grid, K1) is reachable, solveMaze(grid, K2) is
\* reachable for every K2 >= K1 and its steps are not greater.
C3_BudgetMonotone ==
  (pc = "returned" /\ result # Null)
    => \A K2 \in maxBreaksAllowed..MaxK :
         /\ solveMaze(grid, K2) # Null
         /\ solveMaze(grid, K2).steps <= result.steps

\* a call has returned a count that a larger budget strictly improves
C3_Witness ==
  /\ pc = "returned" /\ result # Null
  /\ \E K2 \in maxBreaksAllowed..MaxK : solveMaze(grid, K2).steps < result.steps

\* C4: with every portal replaced by an empty cell, solveMaze never returns
\* fewer steps for the same budget, and never reaches a goal that it does
\* not reach with the portals in place.
C4_NoPortalConsistency ==
  pc = "returned"
    => LET bare == solveMaze(removePortals(grid), maxBreaksAllowed)
       IN bare # Null => (result # Null /\ result.steps <= bare.steps)

\* a call has returned a count that is strictly smaller than without portals
C4_Witness ==
  /\ pc = "returned" /\ result # Null
  /\ solveMaze(removePortals(grid), maxBreaksAllowed) # Null
  /\ result.steps < solveMaze(removePortals(grid), maxBreaksAllowed).steps

\* C5: the second call of solveMaze on the same grid and budget returns the
\* same verdict and the same steps as the first; nothing of the first call
\* is left in the search state the second call starts from.
C5_Determinism ==
  (pc = "returned" /\ calls = 2)
    => /\ (result = Null) = (previous[1] = Null)
       /\ result # Null => result.steps = previous[1].steps

\* the second call has returned a count after a search
C5_Witness ==
  /\ pc = "returned" /\ calls = 2
  /\ result # Null /\ result.steps >= 2

\* C9: with no start or no goal in the grid, solveMaze returns null and no
\* search state is created or explored.
C9_MissingEndpoint ==
  (pc = "returned" /\ (CountType(grid, "start") = 0 \/ CountType(grid, "goal") = 0))
    => /\ result = Null
       /\ queue = << >>
       /\ visited = {}
       /\ iterations = 0

\* a call on a grid that has a goal but no start has returned
C9_Witness ==
  /\ pc = "returned"
  /\ CountType(grid, "start") = 0 /\ CountType(grid, "goal") = 1

\* C10: the value returned for a grid with a missing start or goal differs
\* from the value returned when the search empties the queue.
C10_DistinctResultKind ==
  (pc = "returned" /\ (CountType(grid, "start") = 0 \/ CountType(grid, "goal") = 0))
    => result # solveMaze(WallCorridor, 0)

\* C6: for a budget in 0..5, the Level returned by generateRandomLevel has
\* exactly one start and one goal, both solves of its grid find a path, and
\* their steps are the two stored counts.
C6_GeneratorValidity ==
  (genPc = "done" /\ maxBreaks \in 0..5)
    => /\ CountType(level.grid, "start") = 1
       /\ CountType(level.grid, "goal") = 1
       /\ solveMaze(level.grid, 0) # Null
       /\ solveMaze(level.grid, maxBreaks) # Null
       /\ solveMaze(level.grid, 0).steps = level.optimalStepsNoBreak
       /\ solveMaze(level.grid, maxBreaks).steps = level.optimalStepsWithBreak

\* a Level was returned whose break-enabled optimum is below its no-break
\* optimum
C6_Witness ==
  /\ genPc = "done" /\ maxBreaks \in 1..5
  /\ level.optimalStepsWithBreak < level.optimalStepsNoBreak

\* C7: for every budget and every outcome of the random choices the call
\* returns a Level, after at most 20 attempts; the carving loop and the
\* distance search of every attempt end.
C7_GeneratorTermination ==
  <>(genPc = "done" /\ level # Null /\ attempts <= MaxAttempts)

\* a Level was returned after the twentieth attempt was discarded
C7_Witness ==
  /\ genPc = "done" /\ level # Null
  /\ attempts = MaxAttempts
  /\ level.name = "Fallback Level"

\* C8: the Level returned after every attempt has failed is the corridor
\* [start, empty, goal] and nothing else (no other start, goal, portal or
\* open cell), and its stored counts 2 and 2 are the steps solveMaze returns
\* on its grid with no break and with the budget.
C8_FallbackLayout ==
  (genPc = "done" /\ level.name = "Fallback Level")
    => /\ CountType(level.grid, "start") = 1
       /\ CountType(level.grid, "goal") = 1
       /\ CountType(level.grid, "empty") = 1
       /\ CountType(level.grid, "portal") = 0
       /\ level.optimalStepsNoBreak = 2 /\ level.optimalStepsWithBreak = 2
       /\ solveMaze(level.grid, 0) # Null
       /\ solveMaze(level.grid, 0).steps = 2
       /\ solveMaze(level.grid, maxBreaks) # Null
       /\ solveMaze(level.grid, maxBreaks).steps = 2

(***************************************************************************)
(* The search state of a running call, seen from outside the solver.       *)
(***************************************************************************)
\* the augmented state (x, y, breaksUsed) of a node
NodeState(n) == << n.x, n.y, n.breaksUsed >>

\* the augmented states waiting in the queue
QueueStates == {NodeState(queue[i]) : i \in 1..Len(queue)}

\* the augmented states that were dequeued
DequeuedStates == visited \ QueueStates

\* the number of wall cells entered along a path (the first position is
\* where the path starts, it is not entered)
WallsEntered(g, path) ==
  Cardinality({i \in 2..Len(path) : CellAt(g, path[i]).type = "wall"})

\* one action leads from position a to position b: a cardinal move between
\* two cells of the grid, or a teleport between two portals of one colour
OneAction(g, a, b) ==
  /\ a \in Positions(g) /\ b \in Positions(g)
  /\ \/ Adjacent(a, b)
     \/ /\ a # b
        /\ CellAt(g, a).type = "portal" /\ CellAt(g, b).type = "portal"
        /\ CellAt(g, a).portalColor # "none"
        /\ CellAt(g, a).portalColor = CellAt(g, b).portalColor

\* C11: no step of solveMaze changes the grid it was given: whatever the
\* outcome of the call, every cell keeps its type and its portalColor, and a
\* wall entered by a break during the search is still a wall.
C11_SolverFrame == [][grid' = grid]_vars

\* a call has returned a path that enters a wall, and the cell is a wall
C11_Witness ==
  /\ pc = "returned" /\ result # Null
  /\ \E i \in 2..Len(result.path) : CellAt(grid, result.path[i]).type = "wall"

\* C12: for every grid and budget the call ends: the loop dequeues a state on
\* the goal and returns it, or the queue becomes empty and null is returned.
C12_SolverTermination ==
  <>(/\ pc = "returned"
     /\ \/ result # Null /\ Last(result.path) = findEndpoints(grid).goal
        \/ result = Null /\ queue = << >>)

\* a search on a grid with a start and a goal has emptied the queue
C12_Witness ==
  /\ pc = "returned" /\ result = Null
  /\ OneStartOneGoal(grid)
  /\ iterations >= 1 /\ queue = << >>

\* C15: on the grid [start, wall, goal], solveMaze returns null with K = 0
\* and a result of 2 steps with K = 1.
C15_WallBreakScenario ==
  (pc = "returned" /\ grid = WallCorridor)
    => /\ maxBreaksAllowed = 0 => result = Null
       /\ maxBreaksAllowed = 1 => (result # Null /\ result.steps = 2)

\* the call on [start, wall, goal] with K = 1 has returned a path through
\* the wall
C15_Witness ==
  /\ pc = "returned" /\ grid = WallCorridor /\ maxBreaksAllowed = 1
  /\ result # Null /\ result.path = << Pos(0, 0), Pos(1, 0), Pos(2, 0) >>

\* the path goes from a portal to another portal of its colour in one action
StepsBetweenPortals(g, path) ==
  \E i \in 1..(Len(path) - 1) :
    /\ path[i] # path[i + 1]
    /\ CellAt(g, path[i]).type = "portal" /\ CellAt(g, path[i + 1]).type = "portal"
    /\ CellAt(g, path[i]).portalColor = CellAt(g, path[i + 1]).portalColor

\* C16 as stated: on the portal scenario with K = 0 the goal is reachable
\* only through the portal pair (without the portals there is no path), the
\* returned path uses the teleport and steps = 1 + 1 + 3.
C16_PortalScenario ==
  (pc = "returned" /\ grid = PortalScenario /\ maxBreaksAllowed = 0)
    => /\ solveMaze(removePortals(grid), 0) = Null
       /\ result # Null
       /\ StepsBetweenPortals(grid, result.path)
       /\ result.steps = 5

\* C16 amended: on the portal scenario with K = 0 solveMaze returns 5 steps,
\* 1 (move onto the portal) + 1 (teleport) + 3 (moves from the second portal
\* to the goal), with a path that goes from the first portal to the second;
\* the goal is reachable without the portals too, in 5 steps through row 1.
C16_PortalScenarioAmended ==
  (pc = "returned" /\ grid = PortalScenario /\ maxBreaksAllowed = 0)
    => /\ result # Null
       /\ result.steps = 5
       /\ SubSeq(result.path, 1, 3) = << Pos(0, 0), Pos(1, 0), Pos(1, 1) >>
       /\ StepsBetweenPortals(grid, result.path)
       /\ solveMaze(removePortals(grid), 0) # Null
       /\ solveMaze(removePortals(grid), 0).steps = 5

\* the call on the portal scenario with K = 0 has returned a path
C16_Witness ==
  /\ pc = "returned" /\ grid = PortalScenario /\ maxBreaksAllowed = 0
  /\ result # Null /\ Last(result.path) = Pos(3, 0)

\* C17: every augmented state is enqueued at most once (the states enqueued
\* so far, dequeued or waiting, are as many as the visited keys), at most
\* rows x cols x (K+1) states are enqueued, and a state is told from the
\* states of the same position with another break count: every successor of
\* an expanded state is itself enqueued.
C17_VisitationPolicy ==
  pc \in {"searching", "returned"}
    => /\ iterations + Len(queue) = Cardinality(visited)
       /\ Cardinality(visited) <= Rows(grid) * Cols(grid) * (maxBreaksAllowed + 1)
       /\ QueueStates \subseteq visited
       /\ (pc = "searching" \/ (result = Null /\ iterations > 0))
            => \A k \in DequeuedStates :
                 LET from == PathNode(k[1], k[2], k[3], 0, << >>)
                     succ == teleportSuccessors(grid, from)
                               \o moveSuccessors(grid, maxBreaksAllowed, from)
                 IN \A i \in 1..Len(succ) : NodeState(succ[i]) \in visited

\* one position was enqueued with two break counts
C17_Witness ==
  /\ pc \in {"searching", "returned"}
  /\ \E k1, k2 \in visited : k1[1] = k2[1] /\ k1[2] = k2[2] /\ k1[3] < k2[3]

\* C18: every state enqueued has 0 <= breaksUsed <= K, and the breaksUsed of
\* a node is the number of wall cells entered along its path: one more than
\* its parent's for a wall, the same for any other cell and for a teleport.
C18_BreakBookkeeping ==
  /\ \A k \in visited : 0 <= k[3] /\ k[3] <= maxBreaksAllowed
  /\ \A i \in 1..Len(queue) :
       /\ queue[i].breaksUsed = WallsEntered(grid, queue[i].path)
       /\ queue[i].breaksUsed <= maxBreaksAllowed
  /\ (pc = "returned" /\ result # Null)
       => WallsEntered(grid, result.path) <= maxBreaksAllowed

\* a node that has used the whole budget of two breaks and then moved on to
\* a cell that is not a wall waits in the queue
C18_Witness ==
  \E i \in 1..Len(queue) :
    /\ queue[i].breaksUsed = 2 /\ maxBreaksAllowed = 2
    /\ CellAt(grid, Last(queue[i].path)).type # "wall"

\* C19: the queue holds its nodes in non-decreasing order of steps, at most
\* one layer apart; the steps of a node are the actions of its path (one more
\* than its parent's); no state on the goal was dequeued while the search
\* goes on, and the state returned is on the goal, whatever its breaksUsed,
\* with no fewer steps waiting behind it.
C19_BfsLayering ==
  /\ \A i \in 1..Len(queue) : queue[i].steps = Len(queue[i].path) - 1
  /\ \A i, j \in 1..Len(queue) : i < j => queue[i].steps <= queue[j].steps
  /\ queue # << >> => Last(queue).steps <= Head(queue).steps + 1
  /\ pc = "searching"
       => \A k \in DequeuedStates : Pos(k[1], k[2]) # findEndpoints(grid).goal
  /\ (pc = "returned" /\ result # Null)
       => /\ Last(result.path) = findEndpoints(grid).goal
          /\ result.steps = Len(result.path) - 1
          /\ \A i \in 1..Len(queue) : result.steps <= queue[i].steps

\* the search has returned at a goal state that used a break, while other
\* nodes were waiting
C19_Witness ==
  /\ pc = "returned" /\ result # Null
  /\ WallsEntered(grid, result.path) >= 1
  /\ queue # << >>

\* C20: a returned path begins on the start, ends on the goal, holds
\* steps + 1 positions, each leading to the next by one action (a cardinal
\* move inside the grid or a teleport between two portals of one colour),
\* and enters at most K wall cells.
C20_PathValidity ==
  (pc = "returned" /\ result # Null)
    => /\ Head(result.path) = findEndpoints(grid).start
       /\ Last(result.path) = findEndpoints(grid).goal
       /\ Len(result.path) = result.steps + 1
       /\ \A i \in 1..(Len(result.path) - 1) :
            OneAction(grid, result.path[i], result.path[i + 1])
       /\ WallsEntered(grid, result.path) <= maxBreaksAllowed

\* a returned path of three actions or more holds a teleport between two
\* portals that are not adjacent
C20_Witness ==
  /\ pc = "returned" /\ result # Null
  /\ result.steps >= 3
  /\ \E i \in 1..(Len(result.path) - 1) :
       ~Adjacent(result.path[i], result.path[i + 1])

\* the solver's results on the grid of the built-in level
demoSolNoBreak == solveMaze(DEMO_LEVEL.grid, 0)

demoSolWithBreak == solveMaze(DEMO_LEVEL.grid, DEMO_LEVEL.maxBreaks)

\* C13: the counts stored in DEMO_LEVEL, 24 without breaks and 12 with one
\* break, are the steps solveMaze returns on its grid with K = 0 and K = 1.
C13_DemoMetadata ==
  \A i \in 1..Len(levels) :
    levels[i].name = "Tutorial Sector"
      => /\ demoSolNoBreak # Null
         /\ levels[i].optimalStepsNoBreak = demoSolNoBreak.steps
         /\ demoSolWithBreak # Null
         /\ levels[i].optimalStepsWithBreak = demoSolWithBreak.steps

\* the cells of the session grid that differ from the canonical level's
SessionDiff ==
  {p \in Positions(gameGrid) : CellAt(gameGrid, p) # CellAt(activeLevel.grid, p)}

\* C14: no step of a Game session (move, wall-break, teleport) changes the
\* grid of the canonical Level or the level list; the session grid differs
\* from the canonical grid exactly in the walls broken in the session, which
\* are empty cells there and stay so while the session lasts.
C14_SessionIsolation ==
  [][screen' = "game"
       => /\ screen = "game"
            => /\ activeLevel'.grid = activeLevel.grid
               /\ levels' = levels
               /\ \A p \in SessionDiff : CellAt(gameGrid', p).type = "empty"
          /\ \A p \in SessionDiff' :
               /\ CellAt(activeLevel'.grid, p).type = "wall"
               /\ CellAt(gameGrid', p) = [CellAt(activeLevel'.grid, p) EXCEPT !.type = "empty"]
          /\ Cardinality(SessionDiff') = gameState'.wallsBroken]_vars

\* the player has broken a wall of the session grid and moved on from it
C14_Witness ==
  /\ screen = "game"
  /\ gameState.wallsBroken >= 1
  /\ \E p \in SessionDiff :
       /\ CellAt(activeLevel.grid, p).type = "wall"
       /\ CellAt(gameGrid, p).type = "empty"
       /\ gameState.playerPos # p
       /\ p \in gameState.uniqueCellsVisited

\* the other portals of the colour of the portal on position p
OtherMembers(g, p) ==
  {d \in Positions(g) :
     /\ d # p
     /\ CellAt(g, d).type = "portal"
     /\ CellAt(g, d).portalColor = CellAt(g, p).portalColor}

\* C21: the node about to be expanded gets teleport successors only if it
\* stands on a portal; then it gets one successor for each other portal of
\* the colour, each once, none for its own cell, none at all if the colour
\* has no other member; a teleport successor keeps the breaksUsed of the
\* node and costs one step.
C21_TeleportRule ==
  (pc = "searching" /\ queue # << >>)
    => LET current == Head(queue)
           here == Pos(current.x, current.y)
           succ == teleportSuccessors(grid, current)
       IN /\ CellAt(grid, here).type # "portal" => succ = << >>
          /\ CellAt(grid, here).type = "portal"
               => /\ {Pos(succ[i].x, succ[i].y) : i \in 1..Len(succ)} = OtherMembers(grid, here)
                  /\ Len(succ) = Cardinality(OtherMembers(grid, here))
          /\ \A i \in 1..Len(succ) :
               /\ Pos(succ[i].x, succ[i].y) # here
               /\ succ[i].breaksUsed = current.breaksUsed
               /\ succ[i].steps = current.steps + 1
               /\ succ[i].path = Append(current.path, Pos(succ[i].x, succ[i].y))

\* the node about to be expanded stands on a portal whose colour has two
\* other members, and a portal of the other colour is on the grid
C21_Witness ==
  /\ pc = "searching" /\ queue # << >>
  /\ CellAt(grid, Pos(Head(queue).x, Head(queue).y)).type = "portal"
  /\ Cardinality(OtherMembers(grid, Pos(Head(queue).x, Head(queue).y))) = 2
  /\ \E p \in Positions(grid) :
       /\ CellAt(grid, p).type = "portal"
       /\ CellAt(grid, p).portalColor # CellAt(grid, Pos(Head(queue).x, Head(queue).y)).portalColor

\* the cells of g that are not walls
OpenCells(g) == {p \in Positions(g) : CellAt(g, p).type # "wall"}

\* the cells of O within n cardinal moves, all inside O, of a cell of S
RECURSIVE Within(_, _, _)
Within(O, S, n) ==
  IF n <= 0 THEN S
  ELSE Within(O, S \cup {p \in O : \E s \in S : Adjacent(s, p)}, n - 1)

\* the pairs of cardinally adjacent cells of O
OpenEdges(O) == {e \in SUBSET O : Cardinality(e) = 2 /\ \E a, b \in e : Adjacent(a, b)}

\* C22: the grid an attempt hands to validation has one start and one goal,
\* on different cells, and solveMaze(grid, 0) finds a path on it, whatever
\* the random choices of the attempt were.
C22_NoBreakSolvable ==
  genPc = "validate"
    => /\ CountType(maze, "start") = 1
       /\ CountType(maze, "goal") = 1
       /\ CellAt(maze, Pos(1, 1)).type = "start"
       /\ CellAt(maze, goalPos).type = "goal"
       /\ goalPos # Pos(1, 1)
       /\ solveMaze(maze, 0) # Null

\* an attempt reaches validation with a portal pair and a punched hole, and
\* its no-break path is shorter than the way through the carved skeleton
C22_Witness ==
  /\ genPc = "validate"
  /\ CountType(maze, "portal") = 2
  /\ Cardinality(OpenCells(maze)) > Cardinality(DOMAIN dists)
  /\ solveMaze(maze, 0) # Null
  /\ solveMaze(maze, 0).steps < bestDist

\* C23: when the carving loop has ended and before anything else is placed
\* or punched, the carved cells are connected and have one adjacency less
\* than cells (a tree: one simple path between any two), every interior
\* cell with two odd coordinates is carved, and every border cell is a wall.
C23_PerfectMaze ==
  (genPc = "dist" \/ (genPc = "carve" /\ stack = << >>))
    => LET O == OpenCells(maze)
       IN /\ Within(O, {Pos(1, 1)}, Cardinality(O)) = O
          /\ Cardinality(OpenEdges(O)) = Cardinality(O) - 1
          /\ \A p \in Positions(maze) :
               (/\ p.x >= 1 /\ p.x <= GRID_SIZE - 2 /\ p.y >= 1 /\ p.y <= GRID_SIZE - 2
                /\ p.x % 2 = 1 /\ p.y % 2 = 1) => p \in O
          /\ \A p \in Positions(maze) :
               (p.x = 0 \/ p.y = 0 \/ p.x = GRID_SIZE - 1 \/ p.y = GRID_SIZE - 1)
                 => CellAt(maze, p).type = "wall"

\* the carving loop has ended after backing out of a dead end, with all four
\* lattice cells and the three walls between them opened
C23_Witness ==
  /\ genPc = "carve" /\ stack = << >>
  /\ attempts >= 1
  /\ Cardinality(OpenCells(maze)) = 7
  /\ {Pos(1, 1), Pos(3, 1), Pos(1, 3), Pos(3, 3)} \subseteq OpenCells(maze)

\* the distance search has ended with goalPos on a farthest carved cell
FarthestCell ==
  LET O == OpenCells(maze)
  IN /\ goalPos \in O
     /\ goalPos # Pos(1, 1)
     /\ goalPos \in Within(O, {Pos(1, 1)}, bestDist)
     /\ goalPos \notin Within(O, {Pos(1, 1)}, bestDist - 1)
     /\ Within(O, {Pos(1, 1)}, bestDist) = Within(O, {Pos(1, 1)}, Cardinality(O))

PortalCells(g) == {p \in Positions(g) : CellAt(g, p).type = "portal"}

\* the portals of g are none or a blue pair on cells that the distance
\* search reached and that hold neither the start nor the goal
PortalPairOf(g) ==
  /\ Cardinality(PortalCells(g)) \in {0, 2}
  /\ \A p \in PortalCells(g) :
       /\ CellAt(g, p).portalColor = "blue"
       /\ p \in DOMAIN dists
       /\ p # Pos(1, 1)
       /\ p # goalPos
  /\ \A p \in Positions(g) \ PortalCells(g) : CellAt(g, p).portalColor = "none"

\* C25: once portals have been placed, the grid of the attempt has no portal
\* or exactly two, both blue, on two cells that were empty after the goal
\* was placed (carved cells other than the start and the goal); in a level
\* accepted by validation no colour has exactly one portal.
C25_PortalPlacement ==
  /\ genPc \in {"holes", "validate"} => PortalPairOf(maze)
  /\ (genPc = "done" /\ level.name = "Random Sector")
       => /\ PortalPairOf(level.grid)
          /\ \A c \in PortalColor :
               Cardinality({p \in PortalCells(level.grid) :
                              CellAt(level.grid, p).portalColor = c}) # 1

\* an accepted level holds a blue pair on two cells that are not adjacent
C25_Witness ==
  /\ genPc = "done"
  /\ level.name = "Random Sector"
  /\ Cardinality(PortalCells(level.grid)) = 2
  /\ \A a, b \in PortalCells(level.grid) : ~Adjacent(a, b)

\* g lacks a start, lacks a goal, or has a portal colour with one member
StructurallyInvalid(g) ==
  \/ CountType(g, "start") = 0
  \/ CountType(g, "goal") = 0
  \/ \E c \in PortalColor :
       Cardinality({p \in Positions(g) : /\ CellAt(g, p).type = "portal"
                                         /\ CellAt(g, p).portalColor = c}) = 1

StructuralMessages ==
  {"Missing START point.", "Missing GOAL point.",
   "BLUE portal has no pair.", "RED portal has no pair."}

\* C26: while the edited grid has no start, no goal or a portal colour with
\* fewer than two members, no step of the editor passes a level to onSave
\* (the level list does not grow), and the Save button sets one of the
\* structural messages and leaves the grid, the budget, the tool, the
\* colour, the screen and the level list as they were.
C26_StructuralValidation ==
  [][ (/\ screen = "editor"
       /\ (levels' # levels \/ validationError' # validationError)
       /\ StructurallyInvalid(editorGrid))
        => /\ levels' = levels
           /\ validateAndSave
                => /\ validationError' \in StructuralMessages
                   /\ UNCHANGED << editorGrid, editorMaxBreaks, selectedTool, selectedColor,
                                   screen, levels >> ]_vars

\* Save was pressed on a grid with a start, a goal and a single red portal:
\* the message names the colour and nothing was saved
C26_Witness ==
  /\ screen = "editor"
  /\ validationError = "RED portal has no pair."
  /\ CountType(editorGrid, "start") = 1
  /\ CountType(editorGrid, "goal") = 1
  /\ CountType(editorGrid, "portal") = 1
  /\ levels = << DEMO_LEVEL >>

\* C27: on a grid with a start, a goal and no lone portal, the Save button
\* rejects (no level is passed to onSave, the impossibility message is set)
\* exactly when solveMaze(grid, 0) and solveMaze(grid, maxBreaks) are both
\* null; otherwise the level list grows by the Level of the grid and the
\* budget whose two stored counts are the steps of the two solves, null for
\* a solve that found no path; and when the budget is not negative the
\* saved level's optimalStepsWithBreak is not null.
C27_SavedMetadata ==
  [][ (/\ screen = "editor"
       /\ (levels' # levels \/ validationError' # validationError)
       /\ ~StructurallyInvalid(editorGrid)
       /\ validateAndSave)
        => LET noBreakSol == solveMaze(editorGrid, 0)
               breakSol == solveMaze(editorGrid, editorMaxBreaks)
           IN IF noBreakSol = Null /\ breakSol = Null
              THEN /\ levels' = levels
                   /\ validationError' = "Level is impossible to complete in either mode."
              ELSE /\ levels' = Append(levels,
                        [name |-> "New Level", grid |-> editorGrid,
                         maxBreaks |-> editorMaxBreaks,
                         optimalStepsNoBreak |->
                           IF noBreakSol = Null THEN NullCount ELSE noBreakSol.steps,
                         optimalStepsWithBreak |->
                           IF breakSol = Null THEN NullCount ELSE breakSol.steps])
                   /\ editorMaxBreaks >= 0
                        => Last(levels').optimalStepsWithBreak # NullCount ]_vars

\* a grid was rejected as impossible with budget 0 and then saved with
\* budget 1: the saved level has a null no-break count and a break count
C27_Witness ==
  /\ Len(levels) = 2
  /\ levels[2].maxBreaks = 1
  /\ levels[2].optimalStepsNoBreak = NullCount
  /\ levels[2].optimalStepsWithBreak = 2
  /\ validationError = "Level is impossible to complete in either mode."

\* a step of a mounted session: a key taken by its listener
KeyStep == screen = "game" /\ screen' = "game"

\* the cells of the session grid changed by the step
ChangedCells == {p \in Positions(gameGrid) : CellAt(gameGrid', p) # CellAt(gameGrid, p)}

\* C28: in a Game session wallsBroken never exceeds level.maxBreaks; in
\* 'no-break' mode wallsBroken stays 0 and the session grid does not change;
\* wallsBroken and the session grid change only on a shift-modified move,
\* which adds exactly one to wallsBroken and turns exactly the wall cell the
\* player enters into an empty cell.
C28_SessionBreakBudget ==
  [][ /\ screen' = "game" => gameState'.wallsBroken <= activeLevel'.maxBreaks
      /\ (screen' = "game" /\ gameMode' = "no-break") => gameState'.wallsBroken = 0
      /\ (KeyStep /\ gameMode = "no-break") => gameGrid' = gameGrid
      /\ (KeyStep /\ (gameState'.wallsBroken # gameState.wallsBroken \/ gameGrid' # gameGrid))
           => /\ lastKey'.shiftKey /\ ~lastKey'.enter
              /\ gameState'.wallsBroken = gameState.wallsBroken + 1
              /\ ChangedCells = {gameState'.playerPos}
              /\ CellAt(gameGrid, gameState'.playerPos).type = "wall"
              /\ CellAt(gameGrid', gameState'.playerPos).type = "empty" ]_vars

\* the input just taken is one the session accepts: the session is being
\* played and the key is Enter on a portal that has another portal of its
\* colour, or a direction whose target is inside the grid and is not a wall,
\* or is a wall while shift is held, the mode is 'wall-break' and breaks are
\* left
AcceptedInput ==
  LET k == lastKey'
      target == Pos(gameState.playerPos.x + k.dx, gameState.playerPos.y + k.dy)
  IN /\ gameState.status = "playing"
     /\ IF k.enter
        THEN /\ CellAt(gameGrid, gameState.playerPos).type = "portal"
             /\ OtherMembers(gameGrid, gameState.playerPos) # {}
        ELSE /\ target \in Positions(gameGrid)
             /\ \/ CellAt(gameGrid, target).type # "wall"
                \/ /\ k.shiftKey
                   /\ gameMode = "wall-break"
                   /\ gameState.wallsBroken < activeLevel.maxBreaks

\* C29: in a session being played, an accepted input (a move onto a cell
\* that is not a wall, a wall-break move, a teleport) adds exactly one to
\* movesTaken and puts the player on the target of the move or on another
\* portal of the colour; every other input (out of the grid, into a wall
\* without shift, in 'no-break' mode or with no break left, Enter off a
\* portal or on a portal without partner) leaves playerPos, movesTaken,
\* wallsBroken and the session grid as they were.
C29_ActionAccounting ==
  [][ (KeyStep /\ gameState.status = "playing")
        => IF AcceptedInput
           THEN /\ gameState'.movesTaken = gameState.movesTaken + 1
                /\ IF lastKey'.enter
                   THEN gameState'.playerPos \in OtherMembers(gameGrid, gameState.playerPos)
                   ELSE gameState'.playerPos = Pos(gameState.playerPos.x + lastKey'.dx,
                                                   gameState.playerPos.y + lastKey'.dy)
           ELSE /\ gameState'.playerPos = gameState.playerPos
                /\ gameState'.movesTaken = gameState.movesTaken
                /\ gameState'.wallsBroken = gameState.wallsBroken
                /\ gameGrid' = gameGrid ]_vars

\* after a wall-break and a teleport-free walk, a shift-modified move into a
\* wall was refused because no break is left: the wall still stands ahead
C29_Witness ==
  /\ screen = "game"
  /\ gameState.status = "playing"
  /\ gameMode = "wall-break"
  /\ gameState.wallsBroken = activeLevel.maxBreaks
  /\ gameState.wallsBroken >= 1
  /\ lastKey # Null
  /\ lastKey.shiftKey /\ ~lastKey.enter
  /\ Pos(gameState.playerPos.x + lastKey.dx, gameState.playerPos.y + lastKey.dy)
       \in Positions(gameGrid)
  /\ CellAt(gameGrid, Pos(gameState.playerPos.x + lastKey.dx,
                          gameState.playerPos.y + lastKey.dy)).type = "wall"

\* C30: in a session, status goes from 'playing' to 'won' only with the
\* player on the goal cell; a session whose player stands on the goal is
\* won by the end of that step; a won session stays won and no key changes
\* its playerPos, movesTaken, wallsBroken or grid; a delayed onWin call is
\* scheduled only by the step that wins a session, once, carrying the
\* movesTaken of the moment the goal was reached, and when it runs it hands
\* those steps on as the last result.
C30_SessionWin ==
  [][ /\ KeyStep
        => /\ (gameState.status = "playing" /\ gameState'.status = "won")
                => CellAt(gameGrid', gameState'.playerPos).type = "goal"
           /\ gameState.status = "won"
                => (gameState' = gameState /\ gameGrid' = gameGrid /\ timers' = timers)
      /\ screen' = "game"
        => /\ gameState'.status \in {"playing", "won"}
           /\ CellAt(gameGrid', gameState'.playerPos).type = "goal"
                => gameState'.status = "won"
      /\ timers' # timers
        => \/ /\ timers # << >>
              /\ timers' = Tail(timers)
              /\ lastResult' = [steps |-> Head(timers).steps]
              /\ screen' = "level-select"
           \/ /\ screen' = "game"
              /\ gameState'.status = "won"
              /\ screen = "game" => gameState.status = "playing"
              /\ timers' = Append(timers, [steps |-> gameState'.movesTaken,
                                            level |-> activeLevel', mode |-> gameMode'])
              /\ CellAt(gameGrid', gameState'.playerPos).type = "goal" ]_vars

\* a session was won after a wall-break, its onWin call is waiting with the
\* moves of the winning step, and Enter was pressed afterwards to no effect
C30_Witness ==
  /\ screen = "game"
  /\ gameState.status = "won"
  /\ CellAt(gameGrid, gameState.playerPos).type = "goal"
  /\ gameState.wallsBroken = 1
  /\ gameState.movesTaken >= 2
  /\ timers = << [steps |-> gameState.movesTaken, level |-> activeLevel,
                  mode |-> gameMode] >>
  /\ lastKey # Null
  /\ lastKey.enter

\* C32: whatever cells were clicked with whatever tools since the editor
\* was mounted on its empty grid, the edited grid holds at most one start
\* and at most one goal, and a cell carries a portal colour exactly when it
\* is a portal.
C32_EndpointUniqueness ==
  editorGrid # << >>
    => /\ CountType(editorGrid, "start") <= 1
       /\ CountType(editorGrid, "goal") <= 1
       /\ \A p \in Positions(editorGrid) :
            CellAt(editorGrid, p).portalColor # "none" <=> CellAt(editorGrid, p).type = "portal"

\* the start and the goal have both been drawn away from the first cells
\* clicked, next to a red and a blue portal, with the start tool still held
C32_Witness ==
  /\ editorGrid # << >>
  /\ selectedTool = "start"
  /\ CellAt(editorGrid, Pos(1, 1)).type = "start"
  /\ CellAt(editorGrid, Pos(0, 1)).type = "goal"
  /\ CellAt(editorGrid, Pos(0, 0)) = Cell("portal", "red")
  /\ CellAt(editorGrid, Pos(1, 0)) = Cell("portal", "blue")

\* the step runs the oldest delayed onWin call
OnWinStep == timers # << >> /\ timers' = Tail(timers)

\* the oldest delayed call was scheduled by the session now mounted: that
\* session is won and no call of an earlier session is still waiting
OwnCall == screen = "game" /\ gameState.status = "won" /\ Len(timers) = 1

\* C33: however the delayed onWin calls interleave with Exit and with the
\* start of another level, the score a call puts into lastResult was made
\* on the level and in the mode that the banner then shows (activeLevel and
\* gameMode), and a call scheduled by a session that is no longer mounted
\* leaves the screen of the session now mounted as it is.
C33_ResultAttribution ==
  [][ OnWinStep
        => /\ lastResult' # Null
                => /\ Head(timers).level = activeLevel'
                   /\ Head(timers).mode = gameMode'
           /\ (screen = "game" /\ ~OwnCall) => screen' = "game" ]_vars

\* the budget of the ruleset of the session
SessionBudget == IF gameMode = "no-break" THEN 0 ELSE activeLevel.maxBreaks

\* C31: a won session has taken at least as many moves as solveMaze counts
\* on the level's grid with the budget of the session's ruleset, and every
\* teleport the solver generates from the player's cell (to each other
\* portal of the colour, whatever the size of the group) is the teleport
\* that Enter performs there, so that the solver's count can be played.
C31_SolverPlayAgreement ==
  screen = "game"
    => /\ gameState.status = "won"
            => /\ solveMaze(activeLevel.grid, SessionBudget) # Null
               /\ gameState.movesTaken >= solveMaze(activeLevel.grid, SessionBudget).steps
       /\ (/\ gameState.status = "playing"
           /\ CellAt(gameGrid, gameState.playerPos).type = "portal")
            => \A d \in OtherMembers(gameGrid, gameState.playerPos) :
                 partner(gameGrid, gameState.playerPos) = d

====
